---------------------------- MODULE Spec2Model ----------------------------
(***************************************************************************)
(* A model of ComposingExecutor and CompositeValue                         *)
(* (tensorflow_federated/python/core/impl/executors/composing_executor.py).*)
(*                                                                         *)
(* The composing executor owns one parent executor and an ordered list of  *)
(* child executors.  A child executor is modelled by what it holds: the    *)
(* number of clients it manages and the values embedded in it.  A value    *)
(* embedded in a subordinate executor is a handle                          *)
(*     [owner |-> 0 for the parent, i for child i,                         *)
(*      form  |-> "list" | "all_equal" | "scalar",                         *)
(*      data  |-> the sequence of integers it holds]                       *)
(* ("list": one integer per client; "all_equal": the one integer every     *)
(* client holds; "scalar": an unplaced or server-side integer), and a      *)
(* CompositeValue is                                                       *)
(*     [rep |-> "list" | "delegate" | "tuple" | "computation" |            *)
(*              "intrinsic" | "coroutine" | "none",                        *)
(*      items |-> <<handles>>,                                             *)
(*      placement |-> "CLIENTS" | "SERVER" | "NONE", all_equal |-> bool].  *)
(*                                                                         *)
(* One request (the variables op, pc, ...) walks through create_value and  *)
(* then one operation on the value it obtained.  Every await on the        *)
(* parent or on a child is a step that issues the call, with the result    *)
(* pending, and a step that takes the answer; a fan-out is one step that   *)
(* issues the calls and one step per answer, and the children answer in    *)
(* any order.  Further callers of _get_cardinalities run concurrently      *)
(* with the request.                                                       *)
(***************************************************************************)
EXTENDS Integers, Sequences, FiniteSets, TLC

\* ------------------------------------------------------------------ bounds
\* len(self._child_executors)
NumChildren == 3
\* the largest number of clients one child manages
MaxCard == 2
\* the longest payload handed to create_value
MaxLen == 4
\* callers of _get_cardinalities besides the request
NumCallers == 2
\* calls of close() on the node
MaxCloses == 1

Children == 1..NumChildren
Parent   == 0
\* the constants handed to create_value for an all_equal type, and returned
\* by the functions handed to federated_eval
Vals     == {2}

\* the payloads handed to create_value: per length, the list of the
\* distinct values 1..n, which shows any reordering, loss or duplication
Payloads == {[k \in 1..n |-> k] : n \in 0..MaxLen}

\* ------------------------------------------------------- pure list helpers
\* Python's sum(list)
RECURSIVE sum(_)
sum(s) == IF s = <<>> THEN 0 ELSE Head(s) + sum(Tail(s))

\* Python's value[a:b] for 0 <= a <= b (0-based, end exclusive, clipped)
slice(value, a, b) ==
  LET hi == IF b < Len(value) THEN b ELSE Len(value)
  IN  IF a >= hi THEN <<>> ELSE [k \in 1..(hi - a) |-> value[a + k]]

\* result = []; for x in lists: result.extend(x)
RECURSIVE extend_all(_)
extend_all(lists) ==
  IF lists = <<>> THEN <<>> ELSE Head(lists) \o extend_all(Tail(lists))

\* a loop that never advances its offset
offset_not_advanced(cardinalities, i) == 0

\* offset of child i in the loop of create_value: sum(cardinalities[:i-1])
offset_of(cardinalities, i) == sum(SubSeq(cardinalities, 1, i - 1))

\* the slice create_value hands to child i
child_slice(value, cardinalities, i) ==
  slice(value, offset_of(cardinalities, i),
        offset_of(cardinalities, i) + cardinalities[i])

\* a gather that returns the results last child first
gather_reversed(got, order) == [i \in 1..Len(got) |-> got[Len(got) + 1 - i]]

\* results taken as they complete
gather_as_completed(got, order) == [i \in 1..Len(got) |-> got[order[i]]]

\* asyncio.gather: results in the order of the awaitables, whatever the
\* order in which they completed
gather(got, order) == [i \in 1..Len(got) |-> got[i]]

\* ------------------------------------------------------------------ values
NoHandle == [owner |-> Parent, form |-> "none", data |-> <<>>]
NoValue  == [rep |-> "none", items |-> <<>>, placement |-> "NONE",
             all_equal |-> FALSE]
NoResult == [status |-> "none", err |-> "", data |-> <<>>]

CompositeValue(rep, items, placement, all_equal) ==
  [rep |-> rep, items |-> items, placement |-> placement,
   all_equal |-> all_equal]

Ok(data)   == [status |-> "ok", err |-> "", data |-> data]
Raise(err) == [status |-> "error", err |-> err, data |-> <<>>]

\* the computations handed to the executors
BinaryFns == {"add", "sub"}
UnaryFns  == {"identity", "negate"}

NoArgs == [zero |-> 0, accumulate |-> "add", merge |-> "add",
           report |-> "identity", fn |-> "identity", all_equal |-> FALSE,
           placement |-> "NONE", has_arg |-> FALSE, assignable |-> TRUE,
           arg_rep |-> "none"]
NoFold == [k |-> 0, acc |-> 0, tuples |-> 0, outstanding |-> 0,
           log |-> <<>>, reports |-> 0]
NoCalls == [create_value |-> 0, create_tuple |-> 0, create_call |-> 0,
            create_selection |-> 0, compute |-> 0]
NoTask == [state |-> "none", result |-> <<>>]

VARIABLES
  clients,            \* clients[i]: number of clients child i manages
  cardinalities_task, \* self._cardinalities_task
  num_clients_pc,     \* where _num_clients(child i) of the task stands
  num_clients_runs,   \* how often _num_clients(child i) was started
  callers_waiting,    \* other callers suspended in _get_cardinalities
  callers_done,       \* other callers _get_cardinalities has returned to
  tables_returned,    \* the tables _get_cardinalities has returned so far
  child_calls,        \* calls the request's operations issued to child i
  parent_calls,       \* calls the request's operations issued to the parent
  op, pc,             \* the request: operation and position in it
  payload,            \* the raw input of the request's create_value
  cards,              \* the cardinalities the request obtained
  at_start,           \* the calls and the task when the operation began
  got, order,         \* results of the current fan-out, and completion order
  held,               \* the CompositeValue create_value returned
  out,                \* the CompositeValue create_call returned
  call_args,          \* the computations and flags of the current call
  fold,               \* the parent-side merge of federated_aggregate
  factor,             \* _compute_factor of federated_mean
  result,             \* what the operation returned
  errors_returned,    \* the errors _get_cardinalities has raised so far
  closed,             \* closed[e]: close() calls executor e has received
  callers_cancelled,  \* callers cancelled while suspended on the task
  child_fn_pc         \* where _child_fn(child i) of the fan-out stands

vars == <<clients, cardinalities_task, num_clients_pc, num_clients_runs,
          callers_waiting, callers_done, tables_returned, child_calls,
          parent_calls, op, pc, payload, cards, at_start, got, order, held,
          out, call_args, fold, factor, result, errors_returned, closed,
          callers_cancelled, child_fn_pc>>

caller_vars == <<callers_waiting, callers_done>>
card_vars   == <<cardinalities_task, num_clients_pc, num_clients_runs>>
call_vars   == <<child_calls, parent_calls>>
node_vars   == <<errors_returned, closed, callers_cancelled>>
life_vars   == <<node_vars, child_fn_pc>>

snapshot == [child |-> child_calls, parent |-> parent_calls,
             task |-> cardinalities_task.state, runs |-> num_clients_runs]

Init ==
  /\ clients \in [Children -> 0..MaxCard]
  /\ cardinalities_task = NoTask
  /\ num_clients_pc = [i \in Children |-> "idle"]
  /\ num_clients_runs = [i \in Children |-> 0]
  /\ callers_waiting = 0 /\ callers_done = 0
  /\ tables_returned = {}
  /\ child_calls = [i \in Children |-> NoCalls]
  /\ parent_calls = NoCalls
  /\ op = "none" /\ pc = "idle"
  /\ payload = <<>>
  /\ cards = <<>>
  /\ at_start = snapshot
  /\ got = [i \in Children |-> NoHandle]
  /\ order = <<>>
  /\ held = NoValue
  /\ out = NoValue
  /\ call_args = NoArgs
  /\ fold = NoFold
  /\ factor = "none"
  /\ result = NoResult
  /\ errors_returned = {}
  /\ closed = [e \in {Parent} \cup Children |-> 0]
  /\ callers_cancelled = 0
  /\ child_fn_pc = [i \in Children |-> "idle"]

\* n more calls of method m issued to every child
issue_all(calls, m, n) ==
  [i \in Children |-> [calls[i] EXCEPT ![m] = @ + n]]

\* n more calls of method m issued to one executor
issue(calls, m, n) == [calls EXCEPT ![m] = @ + n]

no_answers == [i \in Children |-> NoHandle]

\* --------------------------------------------------- _get_cardinalities
\* a cache that starts over when the task it holds has failed
task_is_none_or_failed(task) == task.state \in {"none", "failed"}

\* a cache that looks for a finished result instead of a started task
task_has_no_result(task) == task.state # "done"

\* if self._cardinalities_task is None:
task_is_none(task) == task.state = "none"

\* the first lines of _get_cardinalities, up to the await: a new task comes
\* with its own _num_clients coroutines, one per child, not yet started
enter_get_cardinalities ==
  IF task_is_none(cardinalities_task)
  THEN /\ cardinalities_task' = [state |-> "running", result |-> <<>>]
       /\ num_clients_pc' = [i \in Children |-> "idle"]
  ELSE UNCHANGED <<cardinalities_task, num_clients_pc>>

\* one more caller enters _get_cardinalities and suspends on the task
get_cardinalities ==
  /\ callers_waiting + callers_done < NumCallers
  /\ enter_get_cardinalities
  /\ callers_waiting' = callers_waiting + 1
  /\ UNCHANGED <<clients, num_clients_runs, callers_done, tables_returned,
                 call_vars, op, pc, payload, cards, at_start, got, order,
                 held, call_args, fold, factor, result, out>>
  /\ UNCHANGED life_vars

\* _num_clients(child i) starts: its two create_value calls are gathered.
\* asyncio.gather does not cancel the other coroutines when one has failed,
\* so they start and go on after the task has failed
num_clients(i) ==
  /\ cardinalities_task.state \in {"running", "failed"}
  /\ num_clients_pc[i] = "idle"
  /\ num_clients_pc' = [num_clients_pc EXCEPT ![i] = "running"]
  /\ num_clients_runs' = [num_clients_runs EXCEPT ![i] = @ + 1]
  /\ UNCHANGED <<clients, cardinalities_task, caller_vars, tables_returned,
                 call_vars, op, pc, payload, cards, at_start, got, order,
                 held, call_args, fold, factor, result, out>>
  /\ UNCHANGED life_vars

\* the child's answer: federated_sum of the all-equal constant 1 over its clients
child_federated_sum_of_one(i) == sum([c \in 1..clients[i] |-> 1])

\* call = await executor.create_call(fn, arg); result = await call.compute()
\* whether or not another child's coroutine has failed meanwhile
num_clients_return(i) ==
  /\ num_clients_pc[i] = "running"
  /\ num_clients_pc' = [num_clients_pc EXCEPT ![i] = "done"]
  /\ UNCHANGED <<clients, cardinalities_task, num_clients_runs, caller_vars,
                 tables_returned, call_vars, op, pc, payload, cards,
                 at_start, got, order, held, call_args, fold, factor, result, out>>
  /\ UNCHANGED life_vars

\* the gather of _get_cardinalities_helper returns: the task is done
get_cardinalities_helper_return ==
  /\ cardinalities_task.state = "running"
  /\ \A i \in Children : num_clients_pc[i] = "done"
  /\ cardinalities_task' =
       [state |-> "done",
        result |-> [i \in Children |-> child_federated_sum_of_one(i)]]
  /\ UNCHANGED <<clients, num_clients_pc, num_clients_runs, caller_vars,
                 tables_returned, call_vars, op, pc, payload, cards,
                 at_start, got, order, held, call_args, fold, factor, result, out>>
  /\ UNCHANGED life_vars

\* return await self._cardinalities_task
get_cardinalities_return ==
  /\ callers_waiting > 0
  /\ cardinalities_task.state = "done"
  /\ callers_waiting' = callers_waiting - 1
  /\ callers_done' = callers_done + 1
  /\ tables_returned' = tables_returned \cup {cardinalities_task.result}
  /\ UNCHANGED <<clients, card_vars, call_vars, op, pc, payload, cards,
                 at_start, got, order, held, call_args, fold, factor, result, out>>
  /\ UNCHANGED life_vars

\* ----------------------------------------------- create_value, CLIENTS
\* a length check that only rejects payloads that are too long
check_len_at_most(value, length) == Len(value) <= length

\* py_typecheck.check_len(value, total_clients)
check_len(value, length) == Len(value) = length

\* the task has ended without a table: with an exception or cancelled
task_has_raised(task) == task.state \in {"failed", "cancelled"}

\* create_value once it has the cardinalities: check the length, then hand
\* every child its slice
partition(value, cardinalities) ==
  /\ cards' = cardinalities
  /\ tables_returned' = tables_returned \cup {cardinalities}
  /\ IF check_len(value, sum(cardinalities))
     THEN /\ pc' = "children"
          /\ child_calls' = issue_all(child_calls, "create_value", 1)
          /\ result' = NoResult
     ELSE /\ pc' = "done"
          /\ result' = Raise("ValueError")
          /\ UNCHANGED child_calls
  /\ got' = no_answers
  /\ order' = <<>>

\* all_equal = False: py_typecheck.check_type(value, list);
\* cardinalities = await self._get_cardinalities().  The await of a task
\* that has finished does not suspend: the request goes on, or fails with
\* the task's exception, at once
create_value_clients(value) ==
  /\ op = "none"
  /\ op' = "create_value"
  /\ payload' = value
  /\ at_start' = snapshot
  /\ enter_get_cardinalities
  /\ IF cardinalities_task.state = "done"
     THEN partition(value, cardinalities_task.result)
     ELSE IF task_has_raised(cardinalities_task)
     THEN /\ pc' = "done"
          /\ result' = Raise(cardinalities_task.result[1])
          /\ UNCHANGED <<cards, tables_returned, child_calls, got, order>>
     ELSE /\ pc' = "cardinalities"
          /\ UNCHANGED <<cards, tables_returned, child_calls, got, order,
                         result>>
  /\ UNCHANGED <<clients, num_clients_runs, caller_vars, parent_calls, held,
                 call_args, fold, factor, out>>
  /\ UNCHANGED life_vars

\* the cardinalities arrive: check the length, then hand every child its slice
create_value_partition ==
  /\ op = "create_value" /\ pc = "cardinalities"
  /\ cardinalities_task.state = "done"
  /\ partition(payload, cardinalities_task.result)
  /\ UNCHANGED <<clients, card_vars, caller_vars, parent_calls, op, payload,
                 at_start, held, call_args, fold, factor, out>>
  /\ UNCHANGED life_vars

\* the task ends with an exception while the request waits for it: the await
\* raises it and create_value has failed before a child was handed anything
create_value_cardinalities_raise ==
  /\ op = "create_value" /\ pc = "cardinalities"
  /\ task_has_raised(cardinalities_task)
  /\ pc' = "done"
  /\ result' = Raise(cardinalities_task.result[1])
  /\ UNCHANGED <<clients, card_vars, caller_vars, tables_returned, call_vars,
                 op, payload, cards, at_start, got, order, held, call_args,
                 fold, factor, out>>
  /\ UNCHANGED life_vars

\* all_equal = True: the same value is constructed at every child
create_value_all_equal(v) ==
  /\ op = "none"
  /\ op' = "create_value_all_equal" /\ pc' = "children"
  /\ payload' = <<v>>
  /\ at_start' = snapshot
  /\ child_calls' = issue_all(child_calls, "create_value", 1)
  /\ got' = no_answers
  /\ order' = <<>>
  /\ UNCHANGED <<clients, card_vars, caller_vars, tables_returned,
                 parent_calls, cards, held, call_args, fold, factor, result, out>>
  /\ UNCHANGED life_vars

\* child i answers create_value: a handle on what it was handed
child_create_value_return(i) ==
  /\ op \in {"create_value", "create_value_all_equal"} /\ pc = "children"
  /\ got[i] = NoHandle
  /\ got' = [got EXCEPT ![i] =
               IF op = "create_value"
               THEN [owner |-> i, form |-> "list",
                     data |-> child_slice(payload, cards, i)]
               ELSE [owner |-> i, form |-> "all_equal", data |-> payload]]
  /\ order' = Append(order, i)
  /\ UNCHANGED <<clients, card_vars, caller_vars, tables_returned, call_vars,
                 op, pc, payload, cards, at_start, held, call_args, fold,
                 factor, result, out>>
  /\ UNCHANGED life_vars

\* return CompositeValue(await asyncio.gather(*results), type_spec)
create_value_return ==
  /\ op \in {"create_value", "create_value_all_equal"} /\ pc = "children"
  /\ Len(order) = NumChildren
  /\ held' = CompositeValue("list", gather(got, order), "CLIENTS",
                            op = "create_value_all_equal")
  /\ result' = Ok(<<>>)
  /\ pc' = "done"
  /\ got' = no_answers
  /\ order' = <<>>
  /\ UNCHANGED <<clients, card_vars, caller_vars, tables_returned, call_vars,
                 op, payload, cards, at_start, call_args, fold, factor, out>>
  /\ UNCHANGED life_vars

\* the request holds a CLIENTS value and is free to use it
holds_value ==
  /\ op \in {"create_value", "create_value_all_equal"}
  /\ pc = "done" /\ result.status = "ok"

\* the value it holds is a list of per-client lists
holds_list == holds_value /\ ~held.all_equal

\* ------------------------------------------------ CompositeValue.compute
\* the value the request has been returned last: what create_call returned,
\* or what create_value returned as long as nothing was called
computed == IF out.rep = "none" THEN held ELSE out

\* the request before has returned a value
has_returned(ops) == op \in ops /\ pc = "done" /\ result.status = "ok"

\* a compute that asks every child, whatever the type
handles_computed_all(value) == Children

\* the positions of a per-child list whose handles compute materializes:
\* self._value[0] for an all_equal type, every v in self._value otherwise
handles_computed(value) == IF value.all_equal THEN {1} ELSE Children

\* one compute issued to each of some children
issue_compute(calls, who) ==
  [i \in Children |->
     IF i \in who THEN [calls[i] EXCEPT !.compute = @ + 1] ELSE calls[i]]

\* compute() is called on the value: a value held by the parent is computed
\* there, a per-child list at the first child (all_equal) or at every child
start_compute(name) ==
  /\ op' = name
  /\ at_start' = snapshot
  /\ IF computed.rep = "delegate"
     THEN /\ pc' = "parent"
          /\ parent_calls' = issue(parent_calls, "compute", 1)
          /\ UNCHANGED child_calls
     ELSE /\ pc' = "children"
          /\ child_calls' = issue_compute(child_calls,
                                          handles_computed(computed))
          /\ UNCHANGED parent_calls
  /\ got' = no_answers
  /\ order' = <<>>
  /\ result' = NoResult
  /\ UNCHANGED <<clients, card_vars, caller_vars, tables_returned, payload,
                 cards, held, call_args, fold, factor, out>>
  /\ UNCHANGED life_vars

\* a per-child list that is not all_equal: every child is asked to compute
compute ==
  /\ holds_list
  /\ held.rep = "list" /\ ~held.all_equal
  /\ start_compute("compute")

\* compute on a per-child list of an all_equal type, the one create_value,
\* federated_broadcast or federated_value_at_clients returned:
\* return await self._value[0].compute()
compute_all_equal ==
  /\ has_returned({"create_value_all_equal", "broadcast", "value"})
  /\ computed.rep = "list" /\ computed.all_equal
  /\ start_compute("compute_all_equal")

\* compute on the per-child list that federated_map or
\* federated_map_all_equal returned
compute_mapped ==
  /\ has_returned({"map"})
  /\ computed.rep = "list"
  /\ start_compute("compute_mapped")

\* compute on the per-child list that federated_eval_at_clients or
\* federated_eval_at_server returned
compute_eval ==
  /\ has_returned({"eval"})
  /\ computed.rep = "list"
  /\ start_compute("compute_eval")

\* the requests that return a value the parent holds
ServerOps == {"create_value_server", "create_value_unplaced", "aggregate",
              "sum", "mean", "apply", "zip_at_server", "value",
              "weighted_mean"}

\* compute on a value the parent holds:
\* if isinstance(self._value, ExecutorValue): return await self._value.compute()
compute_server ==
  /\ has_returned(ServerOps)
  /\ computed.rep = "delegate"
  /\ start_compute("compute_server")

\* the parent answers compute with what the handle holds
compute_server_return ==
  /\ op = "compute_server" /\ pc = "parent"
  /\ pc' = "done"
  /\ result' = Ok(computed.items[1].data)
  /\ UNCHANGED <<clients, card_vars, caller_vars, tables_returned, call_vars,
                 op, payload, cards, at_start, got, order, held, call_args,
                 fold, factor, out>>
  /\ UNCHANGED life_vars

ListComputeOps == {"compute", "compute_all_equal", "compute_mapped",
                   "compute_eval"}

\* child i answers v.compute() with what its handle holds
child_compute_return(i) ==
  /\ op \in ListComputeOps /\ pc = "children"
  /\ i \in handles_computed(computed)
  /\ got[i] = NoHandle
  /\ got' = [got EXCEPT ![i] = computed.items[i]]
  /\ order' = Append(order, i)
  /\ UNCHANGED <<clients, card_vars, caller_vars, tables_returned, call_vars,
                 op, pc, payload, cards, at_start, held, call_args, fold,
                 factor, result, out>>
  /\ UNCHANGED life_vars

\* all_equal: return await self._value[0].compute()
\* otherwise: for x in await asyncio.gather(...): result.extend(x)
compute_return ==
  /\ op \in ListComputeOps /\ pc = "children"
  /\ Len(order) = Cardinality(handles_computed(computed))
  /\ result' = IF computed.all_equal
               THEN Ok(got[1].data)
               ELSE Ok(extend_all([i \in Children |->
                                     gather(got, order)[i].data]))
  /\ pc' = "done"
  /\ UNCHANGED <<clients, card_vars, caller_vars, tables_returned, call_vars,
                 op, payload, cards, at_start, got, order, held, call_args,
                 fold, factor, out>>
  /\ UNCHANGED life_vars

\* ------------------------------------ what the subordinate executors do
\* a binary computation (tf.add, ...) applied by an executor
apply_binary(f, a, b) == IF f = "add" THEN a + b ELSE a - b

\* a unary computation applied by an executor
apply_unary(f, a) == IF f = "identity" THEN a ELSE 0 - a

\* the values the clients of a child hold for one of its handles
members(h) ==
  IF h.form = "all_equal" THEN [c \in 1..clients[h.owner] |-> h.data[1]]
  ELSE h.data

\* a child's federated_aggregate with the identity as report: its clients'
\* values accumulated from zero, one after the other
RECURSIVE child_aggregate(_, _, _)
child_aggregate(list, zero, accumulate) ==
  IF list = <<>> THEN zero
  ELSE child_aggregate(Tail(list), apply_binary(accumulate, zero, Head(list)),
                       accumulate)

AggregateOps == {"aggregate", "sum", "mean"}

\* ------------------------------ _compute_intrinsic_federated_aggregate
\* zero = await (await self.create_selection(arg, index=1)).compute()
federated_aggregate(zero, accumulate, merge, report) ==
  /\ holds_value
  /\ op' = "aggregate" /\ pc' = "zero"
  /\ call_args' = [NoArgs EXCEPT !.zero = zero, !.accumulate = accumulate,
                                 !.merge = merge, !.report = report]
  /\ at_start' = snapshot
  /\ parent_calls' = issue(parent_calls, "compute", 1)
  /\ fold' = NoFold
  /\ result' = NoResult
  /\ UNCHANGED <<clients, card_vars, caller_vars, tables_returned,
                 child_calls, payload, cards, got, order, held, out, factor>>
  /\ UNCHANGED life_vars

\* a merge that takes its operands the other way round
merge_args_swapped(merge_result, next_val) == <<next_val, merge_result>>

\* self._parent_executor.create_tuple([merge_result, next_val])
merge_args(merge_result, next_val) == <<merge_result, next_val>>

\* the positions of a _child_fn
all_idle == [i \in Children |-> "idle"]

\* zero has arrived: _child_fn is gathered over the children; each first
\* awaits its four create_value calls (zero, accumulate, merge, report)
aggregate_children ==
  /\ op \in AggregateOps /\ pc = "zero"
  /\ pc' = "children"
  /\ child_calls' = issue_all(child_calls, "create_value", 4)
  /\ child_fn_pc' = [i \in Children |-> "values"]
  /\ got' = no_answers
  /\ order' = <<>>
  /\ UNCHANGED <<clients, card_vars, caller_vars, tables_returned,
                 parent_calls, op, payload, cards, at_start, held, out,
                 call_args, fold, factor, result>>
  /\ UNCHANGED node_vars

\* _child_fn of child i has its four values: ex.create_value(aggr_comp,
\* aggr_type) and ex.create_tuple([v, zero, accumulate, merge, report]) are
\* gathered
child_aggregate_operator(i) ==
  /\ op \in AggregateOps /\ pc = "children"
  /\ child_fn_pc[i] = "values"
  /\ child_fn_pc' = [child_fn_pc EXCEPT ![i] = "operator"]
  /\ child_calls' =
       [child_calls EXCEPT ![i] =
          [@ EXCEPT !.create_value = @ + 1, !.create_tuple = @ + 1]]
  /\ UNCHANGED <<clients, card_vars, caller_vars, tables_returned,
                 parent_calls, op, pc, payload, cards, at_start, got, order,
                 held, out, call_args, fold, factor, result>>
  /\ UNCHANGED node_vars

\* the operator and the argument tuple are there: ex.create_call(aggr_func,
\* aggr_args)
child_aggregate_call(i) ==
  /\ op \in AggregateOps /\ pc = "children"
  /\ child_fn_pc[i] = "operator"
  /\ child_fn_pc' = [child_fn_pc EXCEPT ![i] = "call"]
  /\ child_calls' = [child_calls EXCEPT ![i].create_call = @ + 1]
  /\ UNCHANGED <<clients, card_vars, caller_vars, tables_returned,
                 parent_calls, op, pc, payload, cards, at_start, got, order,
                 held, out, call_args, fold, factor, result>>
  /\ UNCHANGED node_vars

\* the call has returned: .compute() on its result
child_aggregate_compute(i) ==
  /\ op \in AggregateOps /\ pc = "children"
  /\ child_fn_pc[i] = "call"
  /\ child_fn_pc' = [child_fn_pc EXCEPT ![i] = "compute"]
  /\ child_calls' = [child_calls EXCEPT ![i].compute = @ + 1]
  /\ UNCHANGED <<clients, card_vars, caller_vars, tables_returned,
                 parent_calls, op, pc, payload, cards, at_start, got, order,
                 held, out, call_args, fold, factor, result>>
  /\ UNCHANGED node_vars

\* _child_fn of child i returns what compute gave: the child's partial
\* result
child_aggregate_return(i) ==
  /\ op \in AggregateOps /\ pc = "children"
  /\ child_fn_pc[i] = "compute"
  /\ got[i] = NoHandle
  /\ child_fn_pc' = [child_fn_pc EXCEPT ![i] = "done"]
  /\ got' = [got EXCEPT ![i] =
               [owner |-> i, form |-> "scalar",
                data |-> <<child_aggregate(members(held.items[i]),
                                           call_args.zero,
                                           call_args.accumulate)>>]]
  /\ order' = Append(order, i)
  /\ UNCHANGED <<clients, card_vars, caller_vars, tables_returned, call_vars,
                 op, pc, payload, cards, at_start, held, out, call_args,
                 fold, factor, result>>
  /\ UNCHANGED node_vars

\* vals is complete: the partial results are constructed at the parent
aggregate_parent_values ==
  /\ op \in AggregateOps /\ pc = "children"
  /\ Len(order) = NumChildren
  /\ pc' = "parent_vals"
  /\ parent_calls' = issue(parent_calls, "create_value", NumChildren)
  /\ child_fn_pc' = all_idle
  /\ got' = gather(got, order)
  /\ order' = <<>>
  /\ UNCHANGED <<clients, card_vars, caller_vars, tables_returned,
                 child_calls, op, payload, cards, at_start, held, out,
                 call_args, fold, factor, result>>
  /\ UNCHANGED node_vars

\* parent_vals is complete: merge and report are constructed at the parent;
\* after them merge_result = parent_vals[0]
aggregate_parent_operators ==
  /\ op \in AggregateOps /\ pc = "parent_vals"
  /\ pc' = "merge"
  /\ parent_calls' = issue(parent_calls, "create_value", 2)
  /\ fold' = [NoFold EXCEPT !.k = 1, !.acc = got[1].data[1]]
  /\ UNCHANGED <<clients, card_vars, caller_vars, tables_returned,
                 child_calls, op, payload, cards, at_start, got, order, held,
                 out, call_args, factor, result>>
  /\ UNCHANGED life_vars

\* for next_val in parent_vals[1:]:
\* await self._parent_executor.create_tuple([merge_result, next_val])
aggregate_merge_tuple ==
  /\ op \in AggregateOps /\ pc = "merge"
  /\ fold.k < NumChildren /\ fold.outstanding = 0 /\ fold.tuples = 0
  /\ parent_calls' = issue(parent_calls, "create_tuple", 1)
  /\ fold' = [fold EXCEPT !.tuples = 1]
  /\ UNCHANGED <<clients, card_vars, caller_vars, tables_returned,
                 child_calls, op, pc, payload, cards, at_start, got, order,
                 held, out, call_args, factor, result>>
  /\ UNCHANGED life_vars

\* the tuple is there: self._parent_executor.create_call(parent_merge, ...)
aggregate_merge_call ==
  /\ op \in AggregateOps /\ pc = "merge"
  /\ fold.tuples = 1
  /\ parent_calls' = issue(parent_calls, "create_call", 1)
  /\ fold' = [fold EXCEPT
                !.tuples = 0,
                !.outstanding = 1,
                !.log = Append(@, merge_args(fold.acc,
                                             got[fold.k + 1].data[1]))]
  /\ UNCHANGED <<clients, card_vars, caller_vars, tables_returned,
                 child_calls, op, pc, payload, cards, at_start, got, order,
                 held, out, call_args, factor, result>>
  /\ UNCHANGED life_vars

\* merge_result = await self._parent_executor.create_call(parent_merge, ...)
aggregate_merge_return ==
  /\ op \in AggregateOps /\ pc = "merge"
  /\ fold.outstanding = 1
  /\ fold' = [fold EXCEPT
                !.outstanding = 0,
                !.k = @ + 1,
                !.acc = apply_binary(call_args.merge,
                                     fold.log[Len(fold.log)][1],
                                     fold.log[Len(fold.log)][2])]
  /\ UNCHANGED <<clients, card_vars, caller_vars, tables_returned, call_vars,
                 op, pc, payload, cards, at_start, got, order, held, out,
                 call_args, factor, result>>
  /\ UNCHANGED life_vars

\* the loop is over: self._parent_executor.create_call(parent_report, ...)
aggregate_report_call ==
  /\ op \in AggregateOps /\ pc = "merge"
  /\ fold.k = NumChildren /\ fold.outstanding = 0
  /\ pc' = "report"
  /\ parent_calls' = issue(parent_calls, "create_call", 1)
  /\ fold' = [fold EXCEPT !.reports = @ + 1]
  /\ UNCHANGED <<clients, card_vars, caller_vars, tables_returned,
                 child_calls, op, payload, cards, at_start, got, order, held,
                 out, call_args, factor, result>>
  /\ UNCHANGED life_vars

server_value(data) ==
  CompositeValue("delegate",
                 <<[owner |-> Parent, form |-> "scalar", data |-> data]>>,
                 "SERVER", TRUE)

\* return CompositeValue(<the report's result>, at_server(report_type.result))
\* _compute_total of federated_mean goes on: total = await total.compute()
aggregate_return ==
  /\ op \in AggregateOps /\ pc = "report"
  /\ out' = server_value(<<apply_unary(call_args.report, fold.acc)>>)
  /\ IF op = "mean"
     THEN /\ pc' = "compute_total"
          /\ parent_calls' = issue(parent_calls, "compute", 1)
          /\ UNCHANGED result
     ELSE /\ pc' = "done"
          /\ result' = Ok(<<>>)
          /\ UNCHANGED parent_calls
  /\ UNCHANGED <<clients, card_vars, caller_vars, tables_returned,
                 child_calls, op, payload, cards, at_start, got, order, held,
                 call_args, fold, factor>>
  /\ UNCHANGED life_vars

\* ------------------------------------ _compute_intrinsic_federated_sum
sum_args_subtracting == [NoArgs EXCEPT !.merge = "sub"]

\* zero = 0, accumulate = merge = tf.add, report = the identity
sum_args == [NoArgs EXCEPT !.zero = 0, !.accumulate = "add", !.merge = "add",
                           !.report = "identity"]

\* zero is embedded through self.create_call, which first constructs the
\* constant at the parent; plus and identity are kept unparsed
federated_sum ==
  /\ holds_value
  /\ op' = "sum" /\ pc' = "embed_value"
  /\ call_args' = sum_args
  /\ at_start' = snapshot
  /\ parent_calls' = issue(parent_calls, "create_value", 1)
  /\ fold' = NoFold
  /\ result' = NoResult
  /\ UNCHANGED <<clients, card_vars, caller_vars, tables_returned,
                 child_calls, payload, cards, got, order, held, out, factor>>
  /\ UNCHANGED life_vars

\* the constant is constructed: create_call calls it at the parent
\* (result = await self._parent_executor.create_call(...))
sum_embed_call ==
  /\ op \in {"sum", "mean"} /\ pc = "embed_value"
  /\ pc' = "embed"
  /\ parent_calls' = issue(parent_calls, "create_call", 1)
  /\ UNCHANGED <<clients, card_vars, caller_vars, tables_returned,
                 child_calls, op, payload, cards, at_start, got, order, held,
                 out, call_args, fold, factor, result>>
  /\ UNCHANGED life_vars

\* aggregate_args = await self.create_tuple([arg, zero, plus, plus, identity])
\* and into _compute_intrinsic_federated_aggregate: zero is computed
sum_aggregate ==
  /\ op \in {"sum", "mean"} /\ pc = "embed"
  /\ pc' = "zero"
  /\ parent_calls' = issue(parent_calls, "compute", 1)
  /\ UNCHANGED <<clients, card_vars, caller_vars, tables_returned,
                 child_calls, op, payload, cards, at_start, got, order, held,
                 out, call_args, fold, factor, result>>
  /\ UNCHANGED life_vars

\* ----------------------------------- _compute_intrinsic_federated_mean
RECURSIVE gcd(_, _)
gcd(a, b) == IF b = 0 THEN a ELSE gcd(b, a % b)

\* a fraction <<numerator, denominator>> in lowest terms
fraction(n, d) == <<n \div gcd(n, d), d \div gcd(n, d)>>

\* a count that takes one participant per child
count_of_children(cardinalities) == Len(cardinalities)

\* count = sum(cardinalities)
count_of(cardinalities) == sum(cardinalities)

\* tf.multiply(total, float(1.0 / count))
multiply_by_reciprocal(total, count) == fraction(total * 1, 1 * count)

\* _compute_factor once the await of the task is over: it raises what the
\* task has raised; float(1.0 / count) fails for no client at all; with
\* either the gathers and the call of federated_mean fail, while
\* _compute_total, which nothing cancels, goes on; otherwise the constant is
\* constructed at the parent.  n is the number of create_value calls the
\* step issues at the parent besides
compute_factor(task, n) ==
  IF task_has_raised(task)
  THEN /\ factor' = "failed"
       /\ result' = Raise(task.result[1])
       /\ parent_calls' = issue(parent_calls, "create_value", n)
       /\ UNCHANGED <<cards, tables_returned>>
  ELSE /\ cards' = task.result
       /\ tables_returned' = tables_returned \cup {task.result}
       /\ IF count_of(task.result) = 0
          THEN /\ factor' = "failed"
               /\ result' = Raise("ZeroDivisionError")
               /\ parent_calls' = issue(parent_calls, "create_value", n)
          ELSE /\ factor' = "value"
               /\ result' = NoResult
               /\ parent_calls' = issue(parent_calls, "create_value", n + 1)

\* the await of the task is over
task_has_ended(task) == task.state = "done" \/ task_has_raised(task)

\* three coroutines start together: the multiply operator is constructed
\* at the parent, _compute_total starts federated_sum, which constructs its
\* constant zero at the parent, and _compute_factor awaits the
\* cardinalities, which does not suspend when the task has ended
federated_mean ==
  /\ holds_value
  /\ op' = "mean" /\ pc' = "embed_value"
  /\ call_args' = sum_args
  /\ at_start' = snapshot
  /\ enter_get_cardinalities
  /\ IF task_has_ended(cardinalities_task)
     THEN compute_factor(cardinalities_task, 2)
     ELSE /\ factor' = "waiting"
          /\ result' = NoResult
          /\ parent_calls' = issue(parent_calls, "create_value", 2)
          /\ UNCHANGED <<cards, tables_returned>>
  /\ fold' = NoFold
  /\ UNCHANGED <<clients, num_clients_runs, caller_vars, child_calls,
                 payload, got, order, held, out>>
  /\ UNCHANGED life_vars

\* cardinalities = await self._get_cardinalities() returns or raises
mean_factor ==
  /\ op = "mean" /\ factor = "waiting"
  /\ task_has_ended(cardinalities_task)
  /\ compute_factor(cardinalities_task, 0)
  /\ UNCHANGED <<clients, card_vars, caller_vars, child_calls, op, pc,
                 payload, at_start, got, order, held, out, call_args, fold>>
  /\ UNCHANGED life_vars

\* the constant of the factor is constructed: it is called at the parent
mean_factor_call ==
  /\ op = "mean" /\ factor = "value"
  /\ factor' = "call"
  /\ parent_calls' = issue(parent_calls, "create_call", 1)
  /\ UNCHANGED <<clients, card_vars, caller_vars, tables_returned,
                 child_calls, op, pc, payload, cards, at_start, got, order,
                 held, out, call_args, fold, result>>
  /\ UNCHANGED life_vars

\* _compute_factor returns
mean_factor_return ==
  /\ op = "mean" /\ factor = "call"
  /\ factor' = "done"
  /\ UNCHANGED <<clients, card_vars, caller_vars, tables_returned, call_vars,
                 op, pc, payload, cards, at_start, got, order, held, out,
                 call_args, fold, result>>
  /\ UNCHANGED life_vars

\* total.compute() has returned:
\* return await self._parent_executor.create_value(total, member_type)
mean_total_value ==
  /\ op = "mean" /\ pc = "compute_total"
  /\ pc' = "total"
  /\ parent_calls' = issue(parent_calls, "create_value", 1)
  /\ UNCHANGED <<clients, card_vars, caller_vars, tables_returned,
                 child_calls, op, payload, cards, at_start, got, order, held,
                 out, call_args, fold, factor, result>>
  /\ UNCHANGED life_vars

\* total and factor are there:
\* return await self._parent_executor.create_tuple([total, factor])
mean_multiply_arg ==
  /\ op = "mean" /\ pc = "total" /\ factor = "done"
  /\ pc' = "multiply_arg"
  /\ parent_calls' = issue(parent_calls, "create_tuple", 1)
  /\ UNCHANGED <<clients, card_vars, caller_vars, tables_returned,
                 child_calls, op, payload, cards, at_start, got, order, held,
                 out, call_args, fold, factor, result>>
  /\ UNCHANGED life_vars

\* result = await self._parent_executor.create_call(multiply_fn, multiply_arg)
mean_multiply_call ==
  /\ op = "mean" /\ pc = "multiply_arg"
  /\ pc' = "multiply"
  /\ parent_calls' = issue(parent_calls, "create_call", 1)
  /\ UNCHANGED <<clients, card_vars, caller_vars, tables_returned,
                 child_calls, op, payload, cards, at_start, got, order, held,
                 out, call_args, fold, factor, result>>
  /\ UNCHANGED life_vars

\* return CompositeValue(result, at_server(member_type))
mean_return ==
  /\ op = "mean" /\ pc = "multiply"
  /\ pc' = "done"
  /\ out' = server_value(multiply_by_reciprocal(out.items[1].data[1],
                                                count_of(cards)))
  /\ result' = Ok(<<>>)
  /\ UNCHANGED <<clients, card_vars, caller_vars, tables_returned, call_vars,
                 op, payload, cards, at_start, got, order, held, call_args,
                 fold, factor>>
  /\ UNCHANGED life_vars

\* ------------------------------------------------ create_call, the front
FederatedType(placement, all_equal) ==
  [placement |-> placement, all_equal |-> all_equal]

\* the parameter types a federated operator may have been constructed with
ParamTypes == {FederatedType("CLIENTS", FALSE), FederatedType("CLIENTS", TRUE),
               FederatedType("SERVER", TRUE)}

type_of(value) == FederatedType(value.placement, value.all_equal)

\* a value of the source type may be used where the target type is expected:
\* same placement, and an all_equal target needs an all_equal source
is_assignable_from(target, source) ==
  /\ target.placement = source.placement
  /\ source.all_equal \/ ~target.all_equal

\* a check that looks at the placement alone
check_placement_only(param_type, arg_type) ==
  param_type.placement = arg_type.placement

\* a call that lets every argument through
check_nothing(param_type, arg_type) == TRUE

\* type_analysis.check_assignable_from(param_type, arg.type_signature)
check_assignable_from(param_type, arg_type) ==
  is_assignable_from(param_type, arg_type)

\* ----------------------------------------------------------------- _map
\* a _map that asks for nothing
map_accepts_all(all_equal, val_all_equal) == FALSE

\* elif all_equal and not val_type.all_equal: raise ValueError
map_rejects(all_equal, val_all_equal) == all_equal /\ ~val_all_equal

\* create_call of federated_map (all_equal = False) or
\* federated_map_all_equal (all_equal = True) on the tuple <fn, held>; the
\* argument is re-typed to the operator's parameter type before _map runs.
\* fn_val = await ex.create_value(fn, fn_type) is issued to every child.
federated_map(all_equal, param_all_equal, fn) ==
  /\ holds_value
  /\ op' = "map"
  /\ call_args' = [NoArgs EXCEPT
                     !.all_equal = all_equal, !.fn = fn, !.has_arg = TRUE,
                     !.placement = "CLIENTS",
                     !.assignable =
                        is_assignable_from(
                          FederatedType("CLIENTS", param_all_equal),
                          type_of(held))]
  /\ at_start' = snapshot
  /\ got' = no_answers
  /\ order' = <<>>
  /\ IF ~check_assignable_from(FederatedType("CLIENTS", param_all_equal),
                               type_of(held))
     THEN /\ pc' = "done"
          /\ result' = Raise("TypeError")
          /\ UNCHANGED child_calls
     ELSE IF map_rejects(all_equal, param_all_equal)
     THEN /\ pc' = "done"
          /\ result' = Raise("ValueError")
          /\ UNCHANGED child_calls
     ELSE /\ pc' = "children"
          /\ result' = NoResult
          /\ child_calls' = issue_all(child_calls, "create_value", 1)
  /\ child_fn_pc' = IF pc' = "children"
                    THEN [i \in Children |-> "values"] ELSE child_fn_pc
  /\ UNCHANGED <<clients, card_vars, caller_vars, tables_returned,
                 parent_calls, payload, cards, held, out, fold, factor>>
  /\ UNCHANGED node_vars

\* _child_fn of the operation `name` runs: the gather over the children
\* waits, or it has raised the error of another child's _child_fn, which
\* cancels nothing
child_fn_runs(name) == op = name /\ pc \in {"children", "done"}

\* fn applied to every element of a list
map_list(fn, list) == [k \in 1..Len(list) |-> apply_unary(fn, list[k])]

\* _child_fn of child i has fn_val: ex.create_value(map_comp, map_type) and
\* ex.create_tuple([fn_val, v]) are gathered
child_map_operator(i) ==
  /\ child_fn_runs("map")
  /\ child_fn_pc[i] = "values"
  /\ child_fn_pc' = [child_fn_pc EXCEPT ![i] = "operator"]
  /\ child_calls' =
       [child_calls EXCEPT ![i] =
          [@ EXCEPT !.create_value = @ + 1, !.create_tuple = @ + 1]]
  /\ UNCHANGED <<clients, card_vars, caller_vars, tables_returned,
                 parent_calls, op, pc, payload, cards, at_start, got, order,
                 held, out, call_args, fold, factor, result>>
  /\ UNCHANGED node_vars

\* the operator and the argument tuple are there:
\* ex.create_call(map_val, map_arg)
child_map_call(i) ==
  /\ child_fn_runs("map")
  /\ child_fn_pc[i] = "operator"
  /\ child_fn_pc' = [child_fn_pc EXCEPT ![i] = "call"]
  /\ child_calls' = [child_calls EXCEPT ![i].create_call = @ + 1]
  /\ UNCHANGED <<clients, card_vars, caller_vars, tables_returned,
                 parent_calls, op, pc, payload, cards, at_start, got, order,
                 held, out, call_args, fold, factor, result>>
  /\ UNCHANGED node_vars

\* _child_fn of child i returns what the call gave; the child maps fn over
\* what its clients hold
child_map_return(i) ==
  /\ child_fn_runs("map")
  /\ child_fn_pc[i] = "call"
  /\ got[i] = NoHandle
  /\ child_fn_pc' = [child_fn_pc EXCEPT ![i] = "done"]
  /\ got' = [got EXCEPT ![i] =
               [owner |-> i, form |-> "list",
                data |-> map_list(call_args.fn, members(held.items[i]))]]
  /\ order' = Append(order, i)
  /\ UNCHANGED <<clients, card_vars, caller_vars, tables_returned, call_vars,
                 op, pc, payload, cards, at_start, held, out, call_args,
                 fold, factor, result>>
  /\ UNCHANGED node_vars

\* return CompositeValue(result_vals, federated_type)
map_return ==
  /\ op = "map" /\ pc = "children"
  /\ Len(order) = NumChildren
  /\ out' = CompositeValue("list", gather(got, order), held.placement,
                           call_args.all_equal)
  /\ result' = Ok(<<>>)
  /\ pc' = "done"
  /\ got' = no_answers
  /\ order' = <<>>
  /\ child_fn_pc' = all_idle
  /\ UNCHANGED <<clients, card_vars, caller_vars, tables_returned, call_vars,
                 op, payload, cards, at_start, held, call_args, fold, factor>>
  /\ UNCHANGED node_vars

\* ------------------------------ _compute_intrinsic_federated_secure_sum
\* raise NotImplementedError
secure_sum_outcome == Raise("NotImplementedError")

\* create_call of federated_secure_sum on the value the request holds
federated_secure_sum(param_type) ==
  /\ holds_value
  /\ op' = "secure_sum" /\ pc' = "done"
  /\ call_args' = [NoArgs EXCEPT
                     !.has_arg = TRUE,
                     !.assignable = is_assignable_from(param_type,
                                                       type_of(held))]
  /\ at_start' = snapshot
  /\ result' = IF ~check_assignable_from(param_type, type_of(held))
               THEN Raise("TypeError")
               ELSE secure_sum_outcome
  /\ UNCHANGED <<clients, card_vars, caller_vars, tables_returned, call_vars,
                 payload, cards, got, order, held, out, fold, factor>>
  /\ UNCHANGED life_vars

\* create_call of federated_secure_sum with arg = None: nothing is checked
federated_secure_sum_no_arg ==
  /\ op = "none"
  /\ op' = "secure_sum" /\ pc' = "done"
  /\ call_args' = NoArgs
  /\ at_start' = snapshot
  /\ result' = secure_sum_outcome
  /\ UNCHANGED <<clients, card_vars, caller_vars, tables_returned, call_vars,
                 payload, cards, got, order, held, out, fold, factor>>
  /\ UNCHANGED life_vars

\* ---------------------------------------------------------------- _eval
\* create_call of federated_eval_at_server or federated_eval_at_clients on a
\* function without parameter that returns v: _child_fn is gathered over
\* the children, each gathers its two create_value calls
federated_eval(placement, v) ==
  /\ op = "none"
  /\ op' = "eval" /\ pc' = "children"
  /\ payload' = <<v>>
  /\ call_args' = [NoArgs EXCEPT !.placement = placement, !.has_arg = TRUE,
                                 !.all_equal = (placement = "SERVER")]
  /\ at_start' = snapshot
  /\ child_calls' = issue_all(child_calls, "create_value", 2)
  /\ child_fn_pc' = [i \in Children |-> "values"]
  /\ got' = no_answers
  /\ order' = <<>>
  /\ UNCHANGED <<clients, card_vars, caller_vars, tables_returned,
                 parent_calls, cards, held, out, fold, factor, result>>
  /\ UNCHANGED node_vars

\* eval_val and fn_val are there: ex.create_call(eval_val, fn_val)
child_eval_call(i) ==
  /\ child_fn_runs("eval")
  /\ child_fn_pc[i] = "values"
  /\ child_fn_pc' = [child_fn_pc EXCEPT ![i] = "call"]
  /\ child_calls' = [child_calls EXCEPT ![i].create_call = @ + 1]
  /\ UNCHANGED <<clients, card_vars, caller_vars, tables_returned,
                 parent_calls, op, pc, payload, cards, at_start, got, order,
                 held, out, call_args, fold, factor, result>>
  /\ UNCHANGED node_vars

\* _child_fn of child i returns what the call gave: child i evaluates the
\* function, at each of its clients or at its server
child_eval_return(i) ==
  /\ child_fn_runs("eval")
  /\ child_fn_pc[i] = "call"
  /\ got[i] = NoHandle
  /\ child_fn_pc' = [child_fn_pc EXCEPT ![i] = "done"]
  /\ UNCHANGED child_calls
  /\ got' = [got EXCEPT ![i] =
               IF call_args.placement = "CLIENTS"
               THEN [owner |-> i, form |-> "list",
                     data |-> [c \in 1..clients[i] |-> payload[1]]]
               ELSE [owner |-> i, form |-> "scalar", data |-> payload]]
  /\ order' = Append(order, i)
  /\ UNCHANGED <<clients, card_vars, caller_vars, tables_returned,
                 parent_calls, op, pc, payload, cards, at_start, held, out,
                 call_args, fold, factor, result>>
  /\ UNCHANGED node_vars

\* return CompositeValue(result_vals, result_type)
eval_return ==
  /\ op = "eval" /\ pc = "children"
  /\ Len(order) = NumChildren
  /\ out' = CompositeValue("list", gather(got, order), call_args.placement,
                           call_args.all_equal)
  /\ result' = Ok(<<>>)
  /\ pc' = "done"
  /\ got' = no_answers
  /\ order' = <<>>
  /\ child_fn_pc' = all_idle
  /\ UNCHANGED <<clients, card_vars, caller_vars, tables_returned, call_vars,
                 op, payload, cards, at_start, held, call_args, fold, factor>>
  /\ UNCHANGED node_vars

\* ------------------------------------------------ create_value, SERVER
\* a create_value that takes any SERVER type
server_rejects_nothing(all_equal) == FALSE

\* if not type_spec.all_equal: raise ValueError
server_rejects(all_equal) == ~all_equal

\* a value the parent holds
parent_handle(data) == [owner |-> Parent, form |-> "scalar", data |-> data]

\* create_value of v against a federated type placed at SERVER:
\* results = await self._parent_executor.create_value(value, type_spec.member)
create_value_server(all_equal, v) ==
  /\ op = "none"
  /\ op' = "create_value_server"
  /\ payload' = <<v>>
  /\ call_args' = [NoArgs EXCEPT !.all_equal = all_equal,
                                 !.placement = "SERVER"]
  /\ at_start' = snapshot
  /\ IF server_rejects(all_equal)
     THEN /\ pc' = "done"
          /\ result' = Raise("ValueError")
          /\ UNCHANGED parent_calls
     ELSE /\ pc' = "parent_value"
          /\ parent_calls' = issue(parent_calls, "create_value", 1)
          /\ UNCHANGED result
  /\ UNCHANGED <<clients, card_vars, caller_vars, tables_returned,
                 child_calls, cards, got, order, held, out, fold, factor>>
  /\ UNCHANGED life_vars

\* the parent has constructed the value:
\* return CompositeValue(results, type_spec)
create_value_server_return ==
  /\ op = "create_value_server" /\ pc = "parent_value"
  /\ pc' = "done"
  /\ held' = CompositeValue("delegate", <<parent_handle(payload)>>,
                            "SERVER", call_args.all_equal)
  /\ result' = Ok(<<>>)
  /\ UNCHANGED <<clients, card_vars, caller_vars, tables_returned, call_vars,
                 op, payload, cards, at_start, got, order, out, call_args,
                 fold, factor>>
  /\ UNCHANGED life_vars

\* create_value of v against a type that is neither a tuple nor federated:
\* await self._parent_executor.create_value(value, type_spec)
create_value_unplaced(v) ==
  /\ op = "none"
  /\ op' = "create_value_unplaced" /\ pc' = "parent_value"
  /\ payload' = <<v>>
  /\ at_start' = snapshot
  /\ parent_calls' = issue(parent_calls, "create_value", 1)
  /\ UNCHANGED <<clients, card_vars, caller_vars, tables_returned,
                 child_calls, cards, got, order, held, out, call_args, fold,
                 factor, result>>
  /\ UNCHANGED life_vars

\* the parent has constructed the value:
\* return CompositeValue(<the parent's handle>, type_spec)
create_value_unplaced_return ==
  /\ op = "create_value_unplaced" /\ pc = "parent_value"
  /\ pc' = "done"
  /\ held' = CompositeValue("delegate", <<parent_handle(payload)>>,
                            "NONE", FALSE)
  /\ result' = Ok(<<>>)
  /\ UNCHANGED <<clients, card_vars, caller_vars, tables_returned, call_vars,
                 op, payload, cards, at_start, got, order, out, call_args,
                 fold, factor>>
  /\ UNCHANGED life_vars

\* the request holds a SERVER value
holds_server_value ==
  /\ op = "create_value_server"
  /\ pc = "done" /\ result.status = "ok"

\* ------------------------------ _compute_intrinsic_federated_broadcast
\* a broadcast whose result is not marked all_equal
broadcast_result_not_all_equal(items) ==
  CompositeValue("list", items, "CLIENTS", FALSE)

\* return CompositeValue(results, type_spec), type_spec being the member
\* type placed at CLIENTS with all_equal = True
broadcast_result(items) == CompositeValue("list", items, "CLIENTS", TRUE)

\* executor_utils.compute_intrinsic_federated_broadcast: the SERVER value is
\* computed at the parent, then create_value of what came back against the
\* all_equal CLIENTS type constructs it at every child
federated_broadcast ==
  /\ holds_server_value
  /\ op' = "broadcast" /\ pc' = "compute"
  /\ at_start' = snapshot
  /\ parent_calls' = issue(parent_calls, "compute", 1)
  /\ got' = no_answers
  /\ order' = <<>>
  /\ result' = NoResult
  /\ UNCHANGED <<clients, card_vars, caller_vars, tables_returned,
                 child_calls, payload, cards, held, out, call_args, fold,
                 factor>>
  /\ UNCHANGED life_vars

\* the parent has computed the value: create_value against the all_equal
\* CLIENTS type hands it to every child
broadcast_children ==
  /\ op = "broadcast" /\ pc = "compute"
  /\ pc' = "children"
  /\ child_calls' = issue_all(child_calls, "create_value", 1)
  /\ UNCHANGED <<clients, card_vars, caller_vars, tables_returned,
                 parent_calls, op, payload, cards, at_start, got, order,
                 held, out, call_args, fold, factor, result>>
  /\ UNCHANGED life_vars

\* child i answers the create_value of federated_broadcast or of
\* federated_value_at_clients: a handle on its copy of the value
child_broadcast_return(i) ==
  /\ op \in {"broadcast", "value"} /\ pc = "children"
  /\ got[i] = NoHandle
  /\ got' = [got EXCEPT ![i] = [owner |-> i, form |-> "all_equal",
                                data |-> held.items[1].data]]
  /\ order' = Append(order, i)
  /\ UNCHANGED <<clients, card_vars, caller_vars, tables_returned, call_vars,
                 op, pc, payload, cards, at_start, held, out, call_args,
                 fold, factor, result>>
  /\ UNCHANGED life_vars

\* results = await asyncio.gather(...); return CompositeValue(results, ...)
broadcast_return ==
  /\ op \in {"broadcast", "value"} /\ pc = "children"
  /\ Len(order) = NumChildren
  /\ out' = broadcast_result(gather(got, order))
  /\ result' = Ok(<<>>)
  /\ pc' = "done"
  /\ got' = no_answers
  /\ order' = <<>>
  /\ UNCHANGED <<clients, card_vars, caller_vars, tables_returned, call_vars,
                 op, payload, cards, at_start, held, call_args, fold, factor>>
  /\ UNCHANGED life_vars

\* ---------------------------------- _compute_intrinsic_federated_apply
\* create_call of federated_apply on the tuple <fn, held>, held being a
\* SERVER value: fn is constructed at the parent
\* (await self._parent_executor.create_value(fn, fn_type))
federated_apply(param_type, fn) ==
  /\ holds_server_value
  /\ op' = "apply"
  /\ at_start' = snapshot
  /\ call_args' = [NoArgs EXCEPT
                     !.fn = fn, !.has_arg = TRUE, !.placement = "SERVER",
                     !.all_equal = TRUE,
                     !.assignable = is_assignable_from(param_type,
                                                       type_of(held)),
                     !.arg_rep = held.rep]
  /\ IF ~check_assignable_from(param_type, type_of(held))
     THEN /\ pc' = "done"
          /\ result' = Raise("TypeError")
          /\ UNCHANGED parent_calls
     ELSE /\ pc' = "parent_value"
          /\ result' = NoResult
          /\ parent_calls' = issue(parent_calls, "create_value", 1)
  /\ UNCHANGED <<clients, card_vars, caller_vars, tables_returned,
                 child_calls, payload, cards, got, order, held, out, fold,
                 factor>>
  /\ UNCHANGED life_vars

\* fn is there: await self._parent_executor.create_call(<fn>, val)
apply_parent_call ==
  /\ op = "apply" /\ pc = "parent_value"
  /\ pc' = "call"
  /\ parent_calls' = issue(parent_calls, "create_call", 1)
  /\ UNCHANGED <<clients, card_vars, caller_vars, tables_returned,
                 child_calls, op, payload, cards, at_start, got, order, held,
                 out, call_args, fold, factor, result>>
  /\ UNCHANGED life_vars

\* return CompositeValue(<the call's result>, at_server(fn_type.result))
apply_return ==
  /\ op = "apply" /\ pc = "call"
  /\ pc' = "done"
  /\ out' = server_value(<<apply_unary(call_args.fn, held.items[1].data[1])>>)
  /\ result' = Ok(<<>>)
  /\ UNCHANGED <<clients, card_vars, caller_vars, tables_returned, call_vars,
                 op, payload, cards, at_start, got, order, held, call_args,
                 fold, factor>>
  /\ UNCHANGED life_vars

\* ---------------------------- _compute_intrinsic_federated_zip_at_server
\* the parent's tuple of two of its handles
parent_tuple(x, y) == [owner |-> Parent, form |-> "tuple", data |-> <<x, y>>]

\* create_call of federated_zip_at_server on the tuple <held, held> of
\* SERVER values: await self._parent_executor.create_tuple(...)
federated_zip_at_server(param_type) ==
  /\ holds_server_value
  /\ op' = "zip_at_server"
  /\ at_start' = snapshot
  /\ call_args' = [NoArgs EXCEPT
                     !.has_arg = TRUE, !.placement = "SERVER",
                     !.all_equal = TRUE,
                     !.assignable = is_assignable_from(param_type,
                                                       type_of(held)),
                     !.arg_rep = held.rep]
  /\ IF ~check_assignable_from(param_type, type_of(held))
     THEN /\ pc' = "done"
          /\ result' = Raise("TypeError")
          /\ UNCHANGED parent_calls
     ELSE /\ pc' = "parent_tuple"
          /\ result' = NoResult
          /\ parent_calls' = issue(parent_calls, "create_tuple", 1)
  /\ UNCHANGED <<clients, card_vars, caller_vars, tables_returned,
                 child_calls, payload, cards, got, order, held, out, fold,
                 factor>>
  /\ UNCHANGED life_vars

\* return CompositeValue(<the parent's tuple>, at_server(<the pair type>))
zip_at_server_return ==
  /\ op = "zip_at_server" /\ pc = "parent_tuple"
  /\ pc' = "done"
  /\ out' = CompositeValue("delegate",
                           <<parent_tuple(held.items[1], held.items[1])>>,
                           "SERVER", TRUE)
  /\ result' = Ok(<<>>)
  /\ UNCHANGED <<clients, card_vars, caller_vars, tables_returned, call_vars,
                 op, payload, cards, at_start, got, order, held, call_args,
                 fold, factor>>
  /\ UNCHANGED life_vars

\* --------- _compute_intrinsic_federated_value_at_clients, _at_server
\* executor_utils.compute_intrinsic_federated_value on the unplaced constant
\* the request holds: the constant is computed, at the parent, which holds
\* it, and then constructed through create_value of the node against its
\* type placed at `placement` with all_equal = True
federated_value(placement) ==
  /\ has_returned({"create_value_unplaced"})
  /\ op' = "value" /\ pc' = "compute"
  /\ at_start' = snapshot
  /\ call_args' = [NoArgs EXCEPT
                     !.has_arg = TRUE, !.placement = placement,
                     !.all_equal = TRUE, !.arg_rep = held.rep]
  /\ parent_calls' = issue(parent_calls, "compute", 1)
  /\ got' = no_answers
  /\ order' = <<>>
  /\ result' = NoResult
  /\ UNCHANGED <<clients, card_vars, caller_vars, tables_returned,
                 child_calls, payload, cards, held, out, fold, factor>>
  /\ UNCHANGED life_vars

\* the constant has been computed: create_value against the placed type,
\* which asks the parent for SERVER and every child for CLIENTS
value_create ==
  /\ op = "value" /\ pc = "compute"
  /\ IF call_args.placement = "SERVER"
     THEN /\ pc' = "parent_value"
          /\ parent_calls' = issue(parent_calls, "create_value", 1)
          /\ UNCHANGED child_calls
     ELSE /\ pc' = "children"
          /\ child_calls' = issue_all(child_calls, "create_value", 1)
          /\ UNCHANGED parent_calls
  /\ UNCHANGED <<clients, card_vars, caller_vars, tables_returned, op,
                 payload, cards, at_start, got, order, held, out, call_args,
                 fold, factor, result>>
  /\ UNCHANGED life_vars

\* the parent has constructed the constant: the SERVER value is returned
value_server_return ==
  /\ op = "value" /\ pc = "parent_value"
  /\ pc' = "done"
  /\ out' = server_value(held.items[1].data)
  /\ result' = Ok(<<>>)
  /\ UNCHANGED <<clients, card_vars, caller_vars, tables_returned, call_vars,
                 op, payload, cards, at_start, got, order, held, call_args,
                 fold, factor>>
  /\ UNCHANGED life_vars

\* --------------------------------------------------------- create_tuple
\* create_tuple: the elements' representations under their names, typed as
\* the named tuple of the elements' types; no executor is called
create_tuple(elements) ==
  [rep |-> "tuple", items |-> elements, placement |-> "NONE",
   all_equal |-> FALSE]

\* the tuple a caller builds from the value it constructed and the value
\* federated_map or federated_apply returned for it
tuple_of_held_and_out(keys) ==
  create_tuple(<<[key |-> keys[1], value |-> held],
                 [key |-> keys[2], value |-> out]>>)

\* the request holds two values: a CLIENTS value and what federated_map made
\* of it, or a SERVER value and what federated_apply made of it
holds_two_values ==
  op \in {"map", "apply"} /\ pc = "done" /\ result.status = "ok"

\* ------------------------- _compute_intrinsic_federated_zip_at_clients
\* a zip that hands the children's handles of the second value out in
\* reverse order
zip_vals_crossed(vals, i) == <<vals[1][i], vals[2][NumChildren + 1 - i]>>

\* for c, x, y in zip(self._child_executors, vals[0], vals[1])
zip_vals(vals, i) == <<vals[1][i], vals[2][i]>>

\* a child's federated_zip_at_clients: client by client, the pair of what
\* the client holds of the one and of the other value
zip_members(xs, ys) ==
  [k \in 1..(IF Len(xs) < Len(ys) THEN Len(xs) ELSE Len(ys)) |->
     <<xs[k], ys[k]>>]

\* create_call of federated_zip_at_clients on the tuple of two CLIENTS
\* values: _child_fn is gathered over the children and first awaits
\* ex.create_value(zip_comp, zip_type)
federated_zip_at_clients ==
  /\ holds_two_values
  /\ tuple_of_held_and_out(<<"None", "None">>).rep = "tuple"
  /\ \A n \in 1..2 :
       LET element == tuple_of_held_and_out(<<"None", "None">>).items[n].value
       IN  /\ element.placement = "CLIENTS"
           /\ element.rep = "list"
           /\ Len(element.items) = NumChildren
  /\ op' = "zip" /\ pc' = "children"
  /\ at_start' = snapshot
  /\ child_calls' = issue_all(child_calls, "create_value", 1)
  /\ child_fn_pc' = [i \in Children |-> "values"]
  /\ got' = no_answers
  /\ order' = <<>>
  /\ result' = NoResult
  /\ UNCHANGED <<clients, card_vars, caller_vars, tables_returned,
                 parent_calls, payload, cards, held, out, call_args, fold,
                 factor>>
  /\ UNCHANGED node_vars

\* _child_fn of child i has the operator:
\* await ex.create_tuple([(keys[0], x), (keys[1], y)])
child_zip_tuple(i) ==
  /\ child_fn_runs("zip")
  /\ child_fn_pc[i] = "values"
  /\ child_fn_pc' = [child_fn_pc EXCEPT ![i] = "operator"]
  /\ child_calls' = [child_calls EXCEPT ![i].create_tuple = @ + 1]
  /\ UNCHANGED <<clients, card_vars, caller_vars, tables_returned,
                 parent_calls, op, pc, payload, cards, at_start, got, order,
                 held, out, call_args, fold, factor, result>>
  /\ UNCHANGED node_vars

\* the tuple is there: ex.create_call(<the operator>, <the tuple>)
child_zip_call(i) ==
  /\ child_fn_runs("zip")
  /\ child_fn_pc[i] = "operator"
  /\ child_fn_pc' = [child_fn_pc EXCEPT ![i] = "call"]
  /\ child_calls' = [child_calls EXCEPT ![i].create_call = @ + 1]
  /\ UNCHANGED <<clients, card_vars, caller_vars, tables_returned,
                 parent_calls, op, pc, payload, cards, at_start, got, order,
                 held, out, call_args, fold, factor, result>>
  /\ UNCHANGED node_vars

\* _child_fn of child i returns what the call gave
child_zip_return(i) ==
  /\ child_fn_runs("zip")
  /\ child_fn_pc[i] = "call"
  /\ got[i] = NoHandle
  /\ child_fn_pc' = [child_fn_pc EXCEPT ![i] = "done"]
  /\ UNCHANGED child_calls
  /\ got' = [got EXCEPT ![i] =
               LET xy == zip_vals(<<held.items, out.items>>, i)
               IN  [owner |-> i, form |-> "list",
                    data |-> zip_members(members(xy[1]), members(xy[2]))]]
  /\ order' = Append(order, i)
  /\ UNCHANGED <<clients, card_vars, caller_vars, tables_returned,
                 parent_calls, op, pc, payload, cards, at_start, held, out,
                 call_args, fold, factor, result>>
  /\ UNCHANGED node_vars

\* return CompositeValue(result, result_type), the type being the pairs
\* placed at CLIENTS
zip_return ==
  /\ op = "zip" /\ pc = "children"
  /\ Len(order) = NumChildren
  /\ out' = CompositeValue("list", gather(got, order), "CLIENTS", FALSE)
  /\ result' = Ok(<<>>)
  /\ pc' = "done"
  /\ got' = no_answers
  /\ order' = <<>>
  /\ child_fn_pc' = all_idle
  /\ UNCHANGED <<clients, card_vars, caller_vars, tables_returned, call_vars,
                 op, payload, cards, at_start, held, call_args, fold, factor>>
  /\ UNCHANGED node_vars

\* ---------------------- _compute_intrinsic_federated_weighted_mean
\* what the clients of one child contribute to the two aggregations: the
\* sum of value * weight, the two lists being paired client by client as
\* far as both go, and the sum of the weights
child_weighted_sums(values, weights) ==
  LET paired == IF Len(values) <= Len(weights)
                THEN Len(values) ELSE Len(weights)
  IN  <<sum([k \in 1..paired |-> values[k] * weights[k]]), sum(weights)>>

\* sum(value * weight) / sum(weight) as a fraction in lowest terms with a
\* positive denominator; a total weight of zero leaves the quotient
\* undefined and the two totals are kept as they are
weighted_quotient(products, weights) ==
  IF weights = 0 THEN <<products, weights>>
  ELSE IF weights < 0 THEN fraction(0 - products, 0 - weights)
  ELSE fraction(products, weights)

\* create_call of federated_weighted_mean on the pair of the CLIENTS value
\* the request constructed (the values) and what federated_map made of it
\* (the weights).  executor_utils.compute_intrinsic_federated_weighted_mean
\* is described by its outcome only: two aggregations, the sum of the
\* products and the sum of the weights, each one call at every child, and
\* their combination, one call at the parent
federated_weighted_mean ==
  /\ holds_two_values
  /\ held.rep = "list" /\ out.rep = "list"
  /\ op' = "weighted_mean" /\ pc' = "children"
  /\ at_start' = snapshot
  /\ child_calls' = issue_all(child_calls, "create_call", 2)
  /\ got' = no_answers
  /\ order' = <<>>
  /\ result' = NoResult
  /\ UNCHANGED <<clients, card_vars, caller_vars, tables_returned,
                 parent_calls, payload, cards, held, out, call_args, fold,
                 factor>>
  /\ UNCHANGED life_vars

\* child i answers with its two partial sums
child_weighted_mean_return(i) ==
  /\ op = "weighted_mean" /\ pc = "children"
  /\ got[i] = NoHandle
  /\ got' = [got EXCEPT ![i] =
               [owner |-> i, form |-> "scalar",
                data |-> child_weighted_sums(members(held.items[i]),
                                             members(out.items[i]))]]
  /\ order' = Append(order, i)
  /\ UNCHANGED <<clients, card_vars, caller_vars, tables_returned, call_vars,
                 op, pc, payload, cards, at_start, held, out, call_args,
                 fold, factor, result>>
  /\ UNCHANGED life_vars

\* every child has answered: the totals are combined at the parent
weighted_mean_combine ==
  /\ op = "weighted_mean" /\ pc = "children"
  /\ Len(order) = NumChildren
  /\ pc' = "combine"
  /\ parent_calls' = issue(parent_calls, "create_call", 1)
  /\ UNCHANGED <<clients, card_vars, caller_vars, tables_returned,
                 child_calls, op, payload, cards, at_start, got, order, held,
                 out, call_args, fold, factor, result>>
  /\ UNCHANGED life_vars

\* the parent has answered: the quotient is returned as a SERVER value
weighted_mean_return ==
  /\ op = "weighted_mean" /\ pc = "combine"
  /\ pc' = "done"
  /\ out' = server_value(
              weighted_quotient(sum([i \in Children |-> got[i].data[1]]),
                                sum([i \in Children |-> got[i].data[2]])))
  /\ result' = Ok(<<>>)
  /\ got' = no_answers
  /\ order' = <<>>
  /\ UNCHANGED <<clients, card_vars, caller_vars, tables_returned, call_vars,
                 op, payload, cards, at_start, held, call_args, fold, factor>>
  /\ UNCHANGED life_vars

\* ------------------------------------ create_value, pb.Computation
\* value.WhichOneof('computation')
ComputationKinds == {"tensorflow", "lambda", "intrinsic", "placement"}

\* create_value of a pb.Computation: a tensorflow or lambda computation is
\* kept unparsed, a recognized intrinsic becomes an operator reference,
\* every other kind is not implemented
create_value_computation(which_computation) ==
  /\ op = "none"
  /\ op' = "create_value_computation" /\ pc' = "done"
  /\ at_start' = snapshot
  /\ IF which_computation \in {"tensorflow", "lambda"}
     THEN /\ held' = [rep |-> "computation", items |-> <<which_computation>>,
                      placement |-> "NONE", all_equal |-> FALSE]
          /\ result' = Ok(<<>>)
     ELSE IF which_computation = "intrinsic"
     THEN /\ held' = [rep |-> "intrinsic", items |-> <<>>,
                      placement |-> "NONE", all_equal |-> FALSE]
          /\ result' = Ok(<<>>)
     ELSE /\ result' = Raise("NotImplementedError")
          /\ UNCHANGED held
  /\ UNCHANGED <<clients, card_vars, caller_vars, tables_returned, call_vars,
                 payload, cards, got, order, out, call_args, fold, factor>>
  /\ UNCHANGED life_vars

\* the request holds an unparsed computation
holds_computation ==
  /\ op = "create_value_computation"
  /\ pc = "done" /\ result.status = "ok"
  /\ held.rep = "computation"

\* ------------------------------------ create_call, pb.Computation
\* a create_call that hands every computation to the parent
is_anything(which_computation) == TRUE

\* if which_computation == 'tensorflow':
is_tensorflow(which_computation) == which_computation = "tensorflow"

\* the names of the pair the computations of the model return
TupleKeys == <<"a", "b">>

\* the parent's handle on what the computation returned: the pair <a=1, b=2>
parent_call_result ==
  [owner |-> Parent, form |-> "tuple", data |-> <<1, 2>>]

\* the representation create_value gives a value of a federated type: a
\* per-child list at CLIENTS, a handle of the parent at SERVER
rep_of_type(type_spec) ==
  IF type_spec.placement = "CLIENTS" THEN "list" ELSE "delegate"

\* executor_utils.delegate_entirely_to_executor: a value the parent holds is
\* the argument as it is; a per-child list is nothing the parent can be
\* handed
delegate_entirely_to_executor(rep) ==
  IF rep = "delegate" THEN Ok(<<>>) ELSE Raise("TypeError")

\* create_call of the computation the request holds, without argument or
\* with an argument of type arg_type where the computation's parameter has
\* type param_type: the construction of the computation at the parent and
\* the delegation of the argument are gathered; the create_value is issued
\* before the delegation fails
create_call_computation(has_arg, param_type, arg_type) ==
  /\ holds_computation
  /\ op' = "call"
  /\ at_start' = snapshot
  /\ call_args' = [NoArgs EXCEPT
                     !.has_arg = has_arg,
                     !.assignable = is_assignable_from(param_type, arg_type),
                     !.arg_rep = IF has_arg THEN rep_of_type(arg_type)
                                 ELSE "none"]
  /\ IF has_arg /\ ~check_assignable_from(param_type, arg_type)
     THEN /\ pc' = "done"
          /\ result' = Raise("TypeError")
          /\ UNCHANGED parent_calls
     ELSE IF is_tensorflow(held.items[1])
     THEN /\ parent_calls' = issue(parent_calls, "create_value", 1)
          /\ IF has_arg
                /\ delegate_entirely_to_executor(
                     rep_of_type(arg_type)).status = "error"
             THEN /\ pc' = "done"
                  /\ result' = delegate_entirely_to_executor(
                                 rep_of_type(arg_type))
             ELSE /\ pc' = "parent_value"
                  /\ result' = NoResult
     ELSE /\ pc' = "done"
          /\ result' = Raise("ValueError")
          /\ UNCHANGED parent_calls
  /\ UNCHANGED <<clients, card_vars, caller_vars, tables_returned,
                 child_calls, payload, cards, got, order, held, out, fold,
                 factor>>
  /\ UNCHANGED life_vars

\* the gather has returned, the computation is constructed at the parent:
\* await self._parent_executor.create_call(<the computation>, <the argument>)
create_call_parent ==
  /\ op = "call" /\ pc = "parent_value"
  /\ pc' = "parent_call"
  /\ parent_calls' = issue(parent_calls, "create_call", 1)
  /\ UNCHANGED <<clients, card_vars, caller_vars, tables_returned,
                 child_calls, op, payload, cards, at_start, got, order, held,
                 out, call_args, fold, factor, result>>
  /\ UNCHANGED life_vars

\* the parent has answered the call:
\* return CompositeValue(result, result.type_signature)
create_call_return ==
  /\ op = "call" /\ pc = "parent_call"
  /\ pc' = "done"
  /\ out' = CompositeValue("delegate", <<parent_call_result>>, "NONE", FALSE)
  /\ result' = Ok(<<>>)
  /\ UNCHANGED <<clients, card_vars, caller_vars, tables_returned, call_vars,
                 op, payload, cards, at_start, got, order, held, call_args,
                 fold, factor>>
  /\ UNCHANGED life_vars

\* ------------------------------------ create_call, what cannot be called
\* the request holds an operator reference
holds_intrinsic ==
  /\ has_returned({"create_value_computation"})
  /\ held.rep = "intrinsic"

\* the operators ComposingExecutor has a _compute_intrinsic_<uri> method for
ImplementedUris ==
  {"federated_aggregate", "federated_apply", "federated_broadcast",
   "federated_eval_at_clients", "federated_eval_at_server", "federated_map",
   "federated_map_all_equal", "federated_mean", "federated_sum",
   "federated_secure_sum", "federated_value_at_clients",
   "federated_value_at_server", "federated_weighted_mean",
   "federated_zip_at_clients", "federated_zip_at_server"}

\* operators of the library the class has no method for
OtherUris == {"federated_collect", "federated_reduce"}

\* coro = getattr(self, '_compute_intrinsic_{}'.format(uri), None)
has_method(uri) == uri \in ImplementedUris

\* create_call of an operator the node has no method for, without argument
\* or with an argument of type arg_type against the parameter type
\* param_type: the type check, then raise NotImplementedError
create_call_intrinsic(uri, has_arg, param_type, arg_type) ==
  /\ holds_intrinsic
  /\ ~has_method(uri)
  /\ op' = "call_intrinsic" /\ pc' = "done"
  /\ at_start' = snapshot
  /\ call_args' = [NoArgs EXCEPT
                     !.has_arg = has_arg,
                     !.assignable = is_assignable_from(param_type, arg_type)]
  /\ result' = IF has_arg /\ ~check_assignable_from(param_type, arg_type)
               THEN Raise("TypeError")
               ELSE Raise("NotImplementedError")
  /\ UNCHANGED <<clients, card_vars, caller_vars, tables_returned, call_vars,
                 payload, cards, got, order, held, out, fold, factor>>
  /\ UNCHANGED life_vars

\* the requests that return a value that is no function
ValueOps == {"create_value", "create_value_all_equal", "create_value_server",
             "create_value_unplaced"}

\* create_call of a value that is neither a computation nor an operator:
\* with an argument, check_type(comp.type_signature, FunctionType) fails;
\* without, raise ValueError('Calling objects of type ... is unsupported')
create_call_of_value(has_arg) ==
  /\ has_returned(ValueOps)
  /\ held.rep \in {"list", "delegate"}
  /\ op' = "call_value" /\ pc' = "done"
  /\ at_start' = snapshot
  /\ call_args' = [NoArgs EXCEPT !.has_arg = has_arg]
  /\ result' = IF has_arg THEN Raise("TypeError") ELSE Raise("ValueError")
  /\ UNCHANGED <<clients, card_vars, caller_vars, tables_returned, call_vars,
                 payload, cards, got, order, held, out, fold, factor>>
  /\ UNCHANGED life_vars

\* ------------------------------------------------------ create_selection
\* index=None
NoIndex == 0 - 1
\* name=None
NoName == "None"

\* position of a name among the keys of a tuple
position_of(name) == CHOOSE k \in 1..Len(TupleKeys) : TupleKeys[k] = name

\* the parent's create_selection: exactly one of index and name selects,
\* anything else is an error
parent_create_selection(handle, index, name) ==
  IF (index = NoIndex) = (name = NoName) THEN Raise("ValueError")
  ELSE IF index # NoIndex THEN Ok(<<handle.data[index + 1]>>)
  ELSE Ok(<<handle.data[position_of(name)]>>)

\* a selection that always returns the first element
select_first(elements, index, name) == Ok(<<elements[1].value>>)

\* if index is not None: source.internal_representation[index]
\* else: getattr(source.internal_representation, name), and getattr raises
\* TypeError when the name is None
select(elements, index, name) ==
  IF index # NoIndex THEN Ok(<<elements[index + 1].value>>)
  ELSE IF name = NoName THEN Raise("TypeError")
  ELSE Ok(<<(CHOOSE e \in {elements[k] : k \in 1..Len(elements)} :
               e.key = name).value>>)

\* create_tuple called on the two values the request holds, under the names
\* a and b; the tuple is what the request has now
create_tuple_of_values ==
  /\ holds_two_values
  /\ op' = "create_tuple"
  /\ at_start' = snapshot
  /\ out' = tuple_of_held_and_out(TupleKeys)
  /\ UNCHANGED <<clients, card_vars, caller_vars, tables_returned, call_vars,
                 pc, payload, cards, got, order, held, call_args, fold,
                 factor, result>>
  /\ UNCHANGED life_vars

\* the request holds a tuple of this node
holds_tuple == op = "create_tuple" /\ pc = "done" /\ out.rep = "tuple"

\* the tuple a selection is made from: the one create_tuple returned, or
\* the one the caller builds from its two values for the selection
source_tuple ==
  IF holds_tuple THEN out ELSE tuple_of_held_and_out(TupleKeys)

\* create_selection on the pair a computation returned (held by the parent):
\* await self._parent_executor.create_selection(...), both selectors handed
\* on as they are; or on the tuple of the two values the request holds, which
\* is indexed at once
create_selection(index, name) ==
  /\ \/ op = "call" /\ pc = "done" /\ result.status = "ok"
     \/ holds_two_values
     \/ holds_tuple
  /\ op' = "selection"
  /\ at_start' = snapshot
  /\ call_args' = [source |-> IF op = "call" THEN "delegate" ELSE "tuple",
                   index |-> index, name |-> name]
  /\ IF op = "call"
     THEN /\ pc' = "parent_selection"
          /\ parent_calls' = issue(parent_calls, "create_selection", 1)
          /\ result' = NoResult
          /\ UNCHANGED out
     ELSE LET answer == select(source_tuple.items, index, name)
          IN  /\ pc' = "done"
              /\ result' = IF answer.status = "ok" THEN Ok(<<>>) ELSE answer
              /\ out' = IF answer.status = "ok" THEN answer.data[1] ELSE out
              /\ UNCHANGED parent_calls
  /\ UNCHANGED <<clients, card_vars, caller_vars, tables_returned,
                 child_calls, payload, cards, got, order, held, fold, factor>>
  /\ UNCHANGED life_vars

\* the parent answers the selection:
\* return CompositeValue(result, result.type_signature), or its error
create_selection_return ==
  /\ op = "selection" /\ pc = "parent_selection"
  /\ pc' = "done"
  /\ LET answer == parent_create_selection(out.items[1], call_args.index,
                                           call_args.name)
     IN  /\ result' = IF answer.status = "ok" THEN Ok(<<>>) ELSE answer
         /\ out' = IF answer.status = "ok"
                   THEN CompositeValue("delegate",
                                       <<parent_handle(answer.data)>>,
                                       "NONE", FALSE)
                   ELSE out
  /\ UNCHANGED <<clients, card_vars, caller_vars, tables_returned, call_vars,
                 op, payload, cards, at_start, got, order, held, call_args,
                 fold, factor>>
  /\ UNCHANGED life_vars

\* ------------------------------------- create_value, NamedTupleType
\* a named tuple type is the sequence of its elements [key, leaf, elements];
\* a leaf is an unplaced tensor type, anything else a named tuple again
IntType(key) == [key |-> key, leaf |-> TRUE, elements |-> <<>>]
FlatTupleType == <<IntType("a"), IntType("b")>>
NestedTupleType ==
  <<[key |-> "a", leaf |-> FALSE,
     elements |-> <<IntType("c"), IntType("d")>>],
    IntType("b")>>
TupleTypes == {FlatTupleType, NestedTupleType}

\* the value handed in with a type: 1 for the first leaf of a tuple, 2 for
\* the second
leaf_value(key) == IF key \in {"a", "c"} THEN 1 ELSE 2

\* what `return self.create_tuple(...)` hands back from a coroutine function
\* that does not await it: the coroutine object of the call, not yet run
coroutine_of_create_tuple(elements) ==
  [rep |-> "coroutine", items |-> elements, placement |-> "NONE",
   all_equal |-> FALSE]

\* what `await self.create_value(v, t)` evaluates to for the element types
\* of a named tuple type, two levels deep at most
create_value_element(element_type) ==
  IF element_type.leaf
  THEN CompositeValue("delegate",
                      <<[owner |-> Parent, form |-> "scalar",
                         data |-> <<leaf_value(element_type.key)>>]>>,
                      "NONE", FALSE)
  ELSE coroutine_of_create_tuple(
         [k \in 1..Len(element_type.elements) |->
            [key |-> element_type.elements[k].key,
             value |->
               CompositeValue(
                 "delegate",
                 <<[owner |-> Parent, form |-> "scalar",
                    data |-> <<leaf_value(element_type.elements[k].key)>>]>>,
                 "NONE", FALSE)]])

\* the leaves of a type: each is one create_value at the parent
leaves(type_spec) ==
  sum([k \in 1..Len(type_spec) |->
         IF type_spec[k].leaf THEN 1 ELSE Len(type_spec[k].elements)])

\* create_value against a named tuple type: the elements are constructed,
\* each against its type (the leaves at the parent), and gathered
create_value_tuple(type_spec) ==
  /\ op = "none"
  /\ op' = "create_value_tuple" /\ pc' = "elements"
  /\ at_start' = snapshot
  /\ call_args' = [type_spec |-> type_spec]
  /\ parent_calls' = issue(parent_calls, "create_value", leaves(type_spec))
  /\ got' = no_answers
  /\ order' = <<>>
  /\ UNCHANGED <<clients, card_vars, caller_vars, tables_returned,
                 child_calls, payload, cards, held, out, fold, factor,
                 result>>
  /\ UNCHANGED life_vars

\* the gathers over the elements of a tuple: of create_value against a named
\* tuple type and of compute on a tuple of this node
TupleFanOuts == {"create_value_tuple", "compute_created_tuple"}

\* what branch k of the gather evaluates to: for create_value the element's
\* value, a handle of the parent for a leaf and the coroutine object of
\* create_tuple for a nested tuple; for compute what the parent's handle
\* of the element holds
element_result(k) ==
  IF op = "create_value_tuple"
  THEN IF call_args.type_spec[k].leaf
       THEN create_value_element(call_args.type_spec[k]).items[1]
       ELSE [owner |-> Parent, form |-> "coroutine", data |-> <<>>]
  ELSE out.items[k].value.items[1]

\* branch k of the gather returns
element_return(k) ==
  /\ op \in TupleFanOuts /\ pc = "elements"
  /\ got[k] = NoHandle
  /\ got' = [got EXCEPT ![k] = element_result(k)]
  /\ order' = Append(order, k)
  /\ UNCHANGED <<clients, card_vars, caller_vars, tables_returned, call_vars,
                 op, pc, payload, cards, at_start, held, out, call_args,
                 fold, factor, result>>
  /\ UNCHANGED life_vars

\* the elements are there: the call of create_tuple is returned without
\* being awaited
create_value_tuple_return ==
  /\ op = "create_value_tuple" /\ pc = "elements"
  /\ Len(order) = Len(call_args.type_spec)
  /\ pc' = "done"
  /\ held' = coroutine_of_create_tuple(
               [k \in 1..Len(call_args.type_spec) |->
                  [key |-> call_args.type_spec[k].key,
                   value |-> create_value_element(call_args.type_spec[k])]])
  /\ result' = Ok(<<>>)
  /\ UNCHANGED <<clients, card_vars, caller_vars, tables_returned, call_vars,
                 op, payload, cards, at_start, got, order, out, call_args,
                 fold, factor>>
  /\ UNCHANGED life_vars

\* _compute_tuple for a tuple two levels deep at most: every element is
\* computed, a nested tuple element by element, and the results are put
\* under the keys again
compute_elements(elements) ==
  [k \in 1..Len(elements) |->
     [key |-> elements[k].key,
      value |->
        IF elements[k].value.rep = "delegate"
        THEN elements[k].value.items[1].data
        ELSE [j \in 1..Len(elements[k].value.items) |->
                [key |-> elements[k].value.items[j].key,
                 value |-> elements[k].value.items[j].value.items[1].data]]]]

\* compute on what create_value returned: a coroutine object has no compute
compute_tuple ==
  /\ op = "create_value_tuple" /\ pc = "done"
  /\ op' = "compute_tuple"
  /\ at_start' = snapshot
  /\ IF held.rep = "tuple"
     THEN /\ parent_calls' = issue(parent_calls, "compute",
                                   leaves(call_args.type_spec))
          /\ result' = Ok(compute_elements(held.items))
     ELSE /\ result' = Raise("AttributeError")
          /\ UNCHANGED parent_calls
  /\ UNCHANGED <<clients, card_vars, caller_vars, tables_returned,
                 child_calls, pc, payload, cards, got, order, held, out,
                 call_args, fold, factor>>
  /\ UNCHANGED life_vars

\* compute on the tuple create_tuple returned: _compute_element of every
\* element is gathered; an element the parent holds is computed there, and
\* a per-child list is none of the forms _compute_element takes
\* (check_type raises TypeError)
compute_created_tuple ==
  /\ holds_tuple
  /\ op' = "compute_created_tuple"
  /\ at_start' = snapshot
  /\ got' = no_answers
  /\ order' = <<>>
  /\ LET held_by_parent == {k \in 1..Len(out.items) :
                              out.items[k].value.rep = "delegate"}
     IN  /\ parent_calls' = issue(parent_calls, "compute",
                                  Cardinality(held_by_parent))
         /\ IF held_by_parent = 1..Len(out.items)
            THEN /\ pc' = "elements"
                 /\ result' = NoResult
            ELSE /\ pc' = "done"
                 /\ result' = Raise("TypeError")
  /\ UNCHANGED <<clients, card_vars, caller_vars, tables_returned,
                 child_calls, payload, cards, held, out, call_args, fold,
                 factor>>
  /\ UNCHANGED life_vars

\* vals = await asyncio.gather(...);
\* return anonymous_tuple.AnonymousTuple(zip(keys, vals))
compute_created_tuple_return ==
  /\ op = "compute_created_tuple" /\ pc = "elements"
  /\ Len(order) = Len(out.items)
  /\ pc' = "done"
  /\ result' = Ok([k \in 1..Len(out.items) |->
                     [key |-> out.items[k].key,
                      value |-> gather(SubSeq(got, 1, Len(out.items)),
                                       order)[k].data]])
  /\ UNCHANGED <<clients, card_vars, caller_vars, tables_returned, call_vars,
                 op, payload, cards, at_start, got, order, held, out,
                 call_args, fold, factor>>
  /\ UNCHANGED life_vars

\* ------------------------------------------- failures of the children
\* the errors a child, or the parent, may raise from a call
ChildErrors == {"RuntimeError", "UnavailableError"}

\* a gather that collects exceptions instead of raising them
gather_return_exceptions(err) == Ok(<<>>)

\* asyncio.gather without return_exceptions: the first exception raised by
\* one of the awaitables is raised from the await of the gather
gather_raise(err) == Raise(err)

\* child i fails create_value: the gather raises and so does create_value
child_create_value_raise(i, err) ==
  /\ op \in {"create_value", "create_value_all_equal"} /\ pc = "children"
  /\ got[i] = NoHandle
  /\ got' = [got EXCEPT ![i] = [owner |-> i, form |-> "raised",
                                data |-> <<err>>]]
  /\ order' = Append(order, i)
  /\ pc' = "done"
  /\ result' = gather_raise(err)
  /\ UNCHANGED <<clients, card_vars, caller_vars, tables_returned, call_vars,
                 op, payload, cards, at_start, held, out, call_args, fold,
                 factor>>
  /\ UNCHANGED life_vars

\* child i fails v.compute(): the gather raises and so does compute
child_compute_raise(i, err) ==
  /\ op \in ListComputeOps /\ pc = "children"
  /\ i \in handles_computed(computed)
  /\ got[i] = NoHandle
  /\ got' = [got EXCEPT ![i] = [owner |-> i, form |-> "raised",
                                data |-> <<err>>]]
  /\ order' = Append(order, i)
  /\ pc' = "done"
  /\ result' = gather_raise(err)
  /\ UNCHANGED <<clients, card_vars, caller_vars, tables_returned, call_vars,
                 op, payload, cards, at_start, held, out, call_args, fold,
                 factor>>
  /\ UNCHANGED life_vars

\* a call that _child_fn of child i awaits fails (create_value,
\* create_tuple or create_call of the child): the coroutine ends with the
\* error and the gather over the children raises it, unless it has raised
\* already; the other children's coroutines run on
child_fn_raise(i, err) ==
  /\ op \in {"map", "eval", "zip"} /\ pc \in {"children", "done"}
  /\ child_fn_pc[i] \in {"values", "operator", "call"}
  /\ got[i] = NoHandle
  /\ child_fn_pc' = [child_fn_pc EXCEPT ![i] = "failed"]
  /\ got' = [got EXCEPT ![i] = [owner |-> i, form |-> "raised",
                                data |-> <<err>>]]
  /\ order' = Append(order, i)
  /\ IF pc = "children"
     THEN /\ pc' = "done"
          /\ result' = gather_raise(err)
     ELSE UNCHANGED <<pc, result>>
  /\ UNCHANGED <<clients, card_vars, caller_vars, tables_returned, call_vars,
                 op, payload, cards, at_start, held, out, call_args, fold,
                 factor>>
  /\ UNCHANGED node_vars

\* the parent fails the call of branch k of a gather over the elements of a
\* tuple (create_value of the element, compute of the element): the gather
\* raises and so does the operation
element_raise(k, err) ==
  /\ op \in TupleFanOuts /\ pc = "elements"
  /\ got[k] = NoHandle
  /\ got' = [got EXCEPT ![k] = [owner |-> Parent, form |-> "raised",
                                data |-> <<err>>]]
  /\ order' = Append(order, k)
  /\ pc' = "done"
  /\ result' = gather_raise(err)
  /\ UNCHANGED <<clients, card_vars, caller_vars, tables_returned, call_vars,
                 op, payload, cards, at_start, held, out, call_args, fold,
                 factor>>
  /\ UNCHANGED life_vars

\* a call of _num_clients(child i) fails: the gather of
\* _get_cardinalities_helper raises and the task is done with the exception
\* of the first coroutine that failed; a later failure changes nothing
num_clients_raise(i, err) ==
  /\ num_clients_pc[i] = "running"
  /\ num_clients_pc' = [num_clients_pc EXCEPT ![i] = "failed"]
  /\ cardinalities_task' =
       IF cardinalities_task.state = "running"
       THEN [state |-> "failed", result |-> <<err>>]
       ELSE cardinalities_task
  /\ UNCHANGED <<clients, num_clients_runs, caller_vars, tables_returned,
                 call_vars, op, pc, payload, cards, at_start, got, order,
                 held, out, call_args, fold, factor, result>>
  /\ UNCHANGED life_vars

\* return await self._cardinalities_task, the task having failed: the
\* await raises the task's exception
get_cardinalities_raise ==
  /\ callers_waiting > 0
  /\ cardinalities_task.state = "failed"
  /\ callers_waiting' = callers_waiting - 1
  /\ callers_done' = callers_done + 1
  /\ errors_returned' = errors_returned \cup {cardinalities_task.result[1]}
  /\ UNCHANGED <<clients, card_vars, tables_returned, call_vars, op, pc,
                 payload, cards, at_start, got, order, held, out, call_args,
                 fold, factor, result, closed, callers_cancelled,
                 child_fn_pc>>

\* ---------------------------------------------------------------- close
\* a close that leaves the parent open
children_only == Children

\* self._parent_executor.close(); for e in self._child_executors: e.close()
executors_closed == {Parent} \cup Children

\* close(): no await in it, so nothing of the node runs in between
close ==
  /\ \A e \in {Parent} \cup Children : closed[e] < MaxCloses
  /\ closed' = [e \in {Parent} \cup Children |->
                  IF e \in executors_closed THEN closed[e] + 1 ELSE closed[e]]
  /\ UNCHANGED <<clients, card_vars, caller_vars, tables_returned, call_vars,
                 op, pc, payload, cards, at_start, got, order, held, out,
                 call_args, fold, factor, result, errors_returned,
                 callers_cancelled, child_fn_pc>>

\* ------------------------------------ cancellation of a waiting caller
\* what Task.cancel() of the shared task makes of _num_clients(child i): a
\* coroutine that has returned keeps its result, every other is cancelled
cancel_num_clients(where) == IF where = "done" THEN "done" ELSE "cancelled"

\* a caller suspended in `return await self._cardinalities_task` is
\* cancelled: the task is what the caller waits on, nothing shields it, so
\* the cancellation is handed on to the task unless that has finished; a
\* task that takes it cancels its gather and with it the children's
\* coroutines
cancel_caller ==
  /\ callers_waiting > 0
  /\ callers_waiting' = callers_waiting - 1
  /\ callers_done' = callers_done + 1
  /\ callers_cancelled' = callers_cancelled + 1
  /\ IF cardinalities_task.state = "running"
     THEN /\ cardinalities_task' = [state |-> "cancelled",
                                     result |-> <<"CancelledError">>]
          /\ num_clients_pc' =
               [i \in Children |-> cancel_num_clients(num_clients_pc[i])]
     ELSE UNCHANGED <<cardinalities_task, num_clients_pc>>
  /\ UNCHANGED <<clients, num_clients_runs, tables_returned, call_vars, op,
                 pc, payload, cards, at_start, got, order, held, out,
                 call_args, fold, factor, result, errors_returned, closed,
                 child_fn_pc>>

\* return await self._cardinalities_task, the task having been cancelled:
\* the await raises CancelledError in a caller nobody cancelled
get_cardinalities_raise_cancelled ==
  /\ callers_waiting > 0
  /\ cardinalities_task.state = "cancelled"
  /\ callers_waiting' = callers_waiting - 1
  /\ callers_done' = callers_done + 1
  /\ errors_returned' = errors_returned \cup {cardinalities_task.result[1]}
  /\ UNCHANGED <<clients, card_vars, tables_returned, call_vars, op, pc,
                 payload, cards, at_start, got, order, held, out, call_args,
                 fold, factor, result, closed, callers_cancelled,
                 child_fn_pc>>

\* the cardinality task and its coroutines
task_step ==
  \/ \E i \in Children : num_clients(i)
  \/ \E i \in Children : num_clients_return(i)
  \/ get_cardinalities_helper_return

\* create_value for a CLIENTS type that is not all_equal
create_value_step ==
  \/ \E value \in Payloads : create_value_clients(value)
  \/ create_value_partition
  \/ \E i \in Children : child_create_value_return(i)
  \/ create_value_return

\* a node that serves one request
Next ==
  \/ task_step
  \/ create_value_step
  \/ \E v \in Vals : create_value_all_equal(v)
  \/ compute
  \/ \E i \in Children : child_compute_return(i)
  \/ compute_return
  \/ \E all_equal \in BOOLEAN, param_all_equal \in BOOLEAN, fn \in UnaryFns :
       federated_map(all_equal, param_all_equal, fn)
  \/ \E i \in Children : child_map_operator(i)
  \/ \E i \in Children : child_map_call(i)
  \/ \E i \in Children : child_map_return(i)
  \/ map_return
  \/ \E param_type \in ParamTypes : federated_secure_sum(param_type)
  \/ federated_secure_sum_no_arg
  \/ \E placement \in {"SERVER", "CLIENTS"}, v \in Vals :
       federated_eval(placement, v)
  \/ \E i \in Children : child_eval_call(i)
  \/ \E i \in Children : child_eval_return(i)
  \/ eval_return
  \/ \E all_equal \in BOOLEAN, v \in Vals : create_value_server(all_equal, v)
  \/ create_value_server_return
  \/ \E v \in Vals : create_value_unplaced(v)
  \/ create_value_unplaced_return
  \/ \E param_type \in ParamTypes, fn \in UnaryFns :
       federated_apply(param_type, fn)
  \/ apply_parent_call
  \/ apply_return
  \/ \E param_type \in ParamTypes : federated_zip_at_server(param_type)
  \/ zip_at_server_return
  \/ federated_broadcast
  \/ broadcast_children
  \/ \E i \in Children : child_broadcast_return(i)
  \/ broadcast_return
  \/ compute_all_equal
  \/ compute_mapped
  \/ compute_eval
  \/ compute_server
  \/ compute_server_return
  \/ create_tuple_of_values
  \/ federated_zip_at_clients
  \/ \E i \in Children : child_zip_tuple(i)
  \/ \E i \in Children : child_zip_call(i)
  \/ \E i \in Children : child_zip_return(i)
  \/ zip_return
  \/ \E which_computation \in ComputationKinds :
       create_value_computation(which_computation)
  \/ \E has_arg \in BOOLEAN, param_type \in ParamTypes,
        arg_type \in ParamTypes :
       create_call_computation(has_arg, param_type, arg_type)
  \/ create_call_parent
  \/ create_call_return
  \/ \E uri \in OtherUris, has_arg \in BOOLEAN, param_type \in ParamTypes,
        arg_type \in ParamTypes :
       create_call_intrinsic(uri, has_arg, param_type, arg_type)
  \/ \E has_arg \in BOOLEAN : create_call_of_value(has_arg)
  \/ \E index \in {NoIndex, 0, 1}, name \in {NoName, "a", "b"} :
       create_selection(index, name)
  \/ create_selection_return
  \/ \E type_spec \in TupleTypes : create_value_tuple(type_spec)
  \/ \E k \in 1..Len(TupleKeys) : element_return(k)
  \/ create_value_tuple_return
  \/ compute_tuple
  \/ compute_created_tuple
  \/ compute_created_tuple_return
  \/ \E placement \in {"SERVER", "CLIENTS"} : federated_value(placement)
  \/ value_create
  \/ value_server_return
  \/ federated_weighted_mean
  \/ \E i \in Children : child_weighted_mean_return(i)
  \/ weighted_mean_combine
  \/ weighted_mean_return

Spec == Init /\ [][Next]_vars

\* a node whose cardinalities are asked for by a create_value request and
\* by further callers, all at once or one after the other, up to the point
\* where the request has its cardinalities and hands out the slices
NextCallers ==
  \/ get_cardinalities
  \/ get_cardinalities_return
  \/ task_step
  \/ \E value \in Payloads : create_value_clients(value)
  \/ create_value_partition

SpecCallers == Init /\ [][NextCallers]_vars

\* a node that constructs a CLIENTS value, aggregates it (the aggregate with
\* its four functions, the sum or the mean) and computes the outcome, while
\* the counting of the clients may fail
NextAggregate ==
  \/ task_step
  \/ create_value_step
  \/ \E v \in Vals : create_value_all_equal(v)
  \/ \E accumulate \in BinaryFns, merge \in BinaryFns :
       federated_aggregate(1, accumulate, merge, "negate")
  \/ aggregate_children
  \/ \E i \in Children : child_aggregate_operator(i)
  \/ \E i \in Children : child_aggregate_call(i)
  \/ \E i \in Children : child_aggregate_compute(i)
  \/ \E i \in Children : child_aggregate_return(i)
  \/ aggregate_parent_values
  \/ aggregate_parent_operators
  \/ aggregate_merge_tuple
  \/ aggregate_merge_call
  \/ aggregate_merge_return
  \/ aggregate_report_call
  \/ aggregate_return
  \/ federated_sum
  \/ sum_embed_call
  \/ sum_aggregate
  \/ federated_mean
  \/ mean_factor
  \/ mean_factor_call
  \/ mean_factor_return
  \/ mean_total_value
  \/ mean_multiply_arg
  \/ mean_multiply_call
  \/ mean_return
  \/ compute_server
  \/ compute_server_return
  \/ \E i \in Children, err \in ChildErrors : num_clients_raise(i, err)
  \/ create_value_cardinalities_raise

SpecAggregate == Init /\ [][NextAggregate]_vars

\* a node whose subordinate executors may fail a call: a child a call of
\* the counting of the clients, of create_value for a CLIENTS type, of
\* compute on a per-child list or of the _child_fn of federated_map,
\* federated_eval and federated_zip_at_clients; the parent the construction
\* or the materialization of an element of a tuple
NextFailures ==
  \/ task_step
  \/ create_value_step
  \/ \E v \in Vals : create_value_all_equal(v)
  \/ compute
  \/ compute_all_equal
  \/ \E i \in Children : child_compute_return(i)
  \/ compute_return
  \/ \E all_equal \in BOOLEAN, param_all_equal \in BOOLEAN, fn \in UnaryFns :
       federated_map(all_equal, param_all_equal, fn)
  \/ \E i \in Children : child_map_operator(i)
  \/ \E i \in Children : child_map_call(i)
  \/ \E i \in Children : child_map_return(i)
  \/ map_return
  \/ \E placement \in {"SERVER", "CLIENTS"}, v \in Vals :
       federated_eval(placement, v)
  \/ \E i \in Children : child_eval_call(i)
  \/ \E i \in Children : child_eval_return(i)
  \/ eval_return
  \/ federated_zip_at_clients
  \/ \E i \in Children : child_zip_tuple(i)
  \/ \E i \in Children : child_zip_call(i)
  \/ \E i \in Children : child_zip_return(i)
  \/ zip_return
  \/ \E i \in Children, err \in ChildErrors : child_fn_raise(i, err)
  \/ \E type_spec \in TupleTypes : create_value_tuple(type_spec)
  \/ create_value_tuple_return
  \/ \E all_equal \in BOOLEAN, v \in Vals : create_value_server(all_equal, v)
  \/ create_value_server_return
  \/ \E param_type \in ParamTypes, fn \in UnaryFns :
       federated_apply(param_type, fn)
  \/ apply_parent_call
  \/ apply_return
  \/ create_tuple_of_values
  \/ compute_created_tuple
  \/ compute_created_tuple_return
  \/ \E k \in 1..Len(TupleKeys) : element_return(k)
  \/ \E k \in 1..Len(TupleKeys), err \in ChildErrors : element_raise(k, err)
  \/ \E i \in Children, err \in ChildErrors : child_create_value_raise(i, err)
  \/ \E i \in Children, err \in ChildErrors : child_compute_raise(i, err)
  \/ \E i \in Children, err \in ChildErrors : num_clients_raise(i, err)
  \/ create_value_cardinalities_raise

SpecFailures == Init /\ [][NextFailures]_vars

\* a node whose cardinalities are asked for while the children's counting
\* may fail, and which is closed at some point
NextTask ==
  \/ get_cardinalities
  \/ get_cardinalities_return
  \/ get_cardinalities_raise
  \/ task_step
  \/ \E i \in Children, err \in ChildErrors : num_clients_raise(i, err)
  \/ close

SpecTask == Init /\ [][NextTask]_vars

\* a node whose cardinalities are asked for by callers and by a create_value
\* request that arrives before, while or after the counting, which may fail
NextLate ==
  \/ get_cardinalities
  \/ get_cardinalities_return
  \/ get_cardinalities_raise
  \/ task_step
  \/ \E i \in Children, err \in ChildErrors : num_clients_raise(i, err)
  \/ \E value \in Payloads : create_value_clients(value)
  \/ create_value_partition
  \/ create_value_cardinalities_raise

SpecLate == Init /\ [][NextLate]_vars

\* a node whose cardinalities are asked for by callers any of which may be
\* cancelled while it waits for the task
NextCancel ==
  \/ get_cardinalities
  \/ get_cardinalities_return
  \/ get_cardinalities_raise_cancelled
  \/ task_step
  \/ cancel_caller

SpecCancel == Init /\ [][NextCancel]_vars

\* ---------------------------------------------------------------- claims
\* what the children really manage, as a table in child order
true_cardinalities == [i \in Children |-> clients[i]]
total_clients      == sum(true_cardinalities)

\* the part of a list that belongs to the clients of child i
RECURSIVE clients_before(_)
clients_before(i) == IF i = 1 THEN 0 ELSE clients_before(i - 1) + clients[i - 1]
part_of_child(list, i) ==
  SubSeq(list, clients_before(i) + 1, clients_before(i) + clients[i])

\* the lists of the first n handles, one after the other
RECURSIVE lists_up_to(_, _)
lists_up_to(items, n) ==
  IF n = 0 THEN <<>> ELSE lists_up_to(items, n - 1) \o items[n].data

\* C1: a list as long as the total cardinality, constructed as a CLIENTS
\* all_equal=false value and then computed, comes back unchanged and in
\* order; child i is handed, and holds, the contiguous slice of its clients.
C1_PartitionRoundTrip ==
  /\ (op = "create_value" /\ pc = "done" /\ Len(payload) = total_clients)
       => /\ result.status = "ok"
          /\ held.rep = "list" /\ Len(held.items) = NumChildren
          /\ \A i \in Children :
               /\ held.items[i].owner = i
               /\ held.items[i].data = part_of_child(payload, i)
  /\ (op = "compute" /\ pc = "done") => result = Ok(payload)

C1_Witness ==
  /\ op = "compute" /\ pc = "done"
  /\ payload = <<1, 2, 3>>
  /\ clients[1] = 1 /\ clients[2] = 2

\* C2: however many callers ask for the cardinalities, and whenever they
\* ask, _num_clients is started once per child, and every caller is
\* returned the same table, the one of the children's client counts.
C2_SingleFlight ==
  /\ \A i \in Children : num_clients_runs[i] <= 1
  /\ cardinalities_task.state = "done"
       => \A i \in Children : num_clients_runs[i] = 1
  /\ (callers_done > 0 \/ cards # <<>>) => cardinalities_task.state = "done"
  /\ tables_returned \subseteq {true_cardinalities}
  /\ cards # <<>> => cards = true_cardinalities

C2_Witness ==
  /\ callers_done = NumCallers
  /\ cards # <<>>
  /\ at_start.task = "running"

\* the create_value calls of one _num_clients: the constant 1 and the
\* operator federated_sum, gathered
num_clients_create_values == 2

\* the create_value calls child i has received since the request's
\* operation started: those of the operation's own fan-out and those of
\* the child's counting, if that has started since
child_create_values_since_start(i) ==
  (child_calls[i].create_value - at_start.child[i].create_value)
  + num_clients_create_values * (num_clients_runs[i] - at_start.runs[i])

wrong_length == op = "create_value" /\ Len(payload) # total_clients

\* C3 as claimed: a payload of the wrong length fails with the
\* cardinality-mismatch error and during the request no create_value
\* reaches any child.
C3_NoChildCreateValue ==
  (wrong_length /\ pc = "done")
    => /\ result = Raise("ValueError")
       /\ \A i \in Children : child_create_values_since_start(i) = 0

\* C3 as amended: a payload of the wrong length fails with the
\* cardinality-mismatch error and no part of it is handed to any child; the
\* create_value calls that reach a child during the request are those of
\* cardinality resolution alone, two for every child whose counting had not
\* started when the request began and none for the others, and no child is
\* counted twice.
C3_NoSliceHandedOut ==
  wrong_length
    => /\ child_calls = at_start.child
       /\ \A i \in Children :
            /\ num_clients_runs[i] <= 1
            /\ child_create_values_since_start(i)
                 \in {0, num_clients_create_values}
       /\ pc = "done"
            => /\ result = Raise("ValueError")
               /\ \A i \in Children :
                    child_create_values_since_start(i) =
                      IF at_start.runs[i] = 0
                      THEN num_clients_create_values ELSE 0

C3_Witness ==
  /\ wrong_length /\ pc = "done"
  /\ at_start.task = "running"
  /\ child_create_values_since_start(1) = 0
  /\ child_create_values_since_start(NumChildren) = num_clients_create_values
  /\ Len(payload) < total_clients

\* C4: compute on a per-child list returns the children's lists one after
\* the other in child order, whatever the order in which the children
\* answered, and as many elements as there are clients.
C4_ComputeInChildOrder ==
  (op = "compute" /\ pc = "done")
    => /\ result.status = "ok"
       /\ result.data = lists_up_to(held.items, NumChildren)
       /\ Len(result.data) = total_clients

C4_Witness ==
  /\ op = "compute" /\ pc = "done"
  /\ order[1] = NumChildren
  /\ \A i \in Children : clients[i] >= 1
  /\ payload[1] # payload[Len(payload)]

\* what the clients of child i hold of the value the request constructed,
\* and all of it in client order
true_members(i) ==
  IF held.all_equal THEN [c \in 1..clients[i] |-> payload[1]]
  ELSE part_of_child(payload, i)
all_values ==
  IF held.all_equal THEN [c \in 1..total_clients |-> payload[1]]
  ELSE payload

\* the first n elements of a list accumulated from zero, left to right
RECURSIVE accumulated(_, _)
accumulated(list, n) ==
  IF n = 0 THEN call_args.zero
  ELSE apply_binary(call_args.accumulate, accumulated(list, n - 1), list[n])

\* the partial result p_i of child i, and merge(...merge(p_1, p_2)..., p_n)
partial(i) == accumulated(true_members(i), clients[i])
RECURSIVE merged(_)
merged(n) ==
  IF n = 1 THEN partial(1)
  ELSE apply_binary(call_args.merge, merged(n - 1), partial(n))

\* C5: the parent merges the children's partial results one call at a time,
\* the j-th call being merge(<the first j partials merged>, p_j+1) in child
\* order whatever the order in which the children answered, then applies
\* report once to the outcome of the last merge.
C5_SequentialLeftFold ==
  op \in AggregateOps
    => /\ fold.outstanding \in {0, 1}
       /\ fold.reports <= 1
       /\ fold.k >= 1 => Len(fold.log) = (fold.k - 1) + fold.outstanding
       /\ \A j \in 1..Len(fold.log) :
            fold.log[j] = <<merged(j), partial(j + 1)>>
       /\ (fold.k >= 1 /\ fold.outstanding = 0) => fold.acc = merged(fold.k)
       /\ pc = "report" => (fold.k = NumChildren /\ fold.reports = 1)
       /\ (pc = "done" /\ op # "mean")
            => /\ fold.reports = 1
               /\ Len(fold.log) = NumChildren - 1
               /\ out = server_value(<<apply_unary(call_args.report,
                                                   merged(NumChildren))>>)

C5_Witness ==
  /\ op = "aggregate" /\ pc = "done"
  /\ call_args.merge = "sub" /\ call_args.accumulate = "sub"
  /\ Len(fold.log) >= 2
  /\ \A i \in Children : clients[i] >= 1

\* C6: federated_sum of a CLIENTS value is a SERVER value that holds the sum
\* of all clients' values; it is the aggregate with zero = 0, accumulate =
\* merge = add and report = identity.
C6_FederatedSum ==
  (op = "sum" /\ pc = "done")
    => /\ result.status = "ok"
       /\ out = server_value(<<sum(all_values)>>)
       /\ call_args.zero = 0
       /\ call_args.accumulate = "add" /\ call_args.merge = "add"
       /\ call_args.report = "identity"
       /\ fold.reports = 1

C6_Witness ==
  /\ op = "sum" /\ pc = "done"
  /\ ~held.all_equal
  /\ total_clients = MaxLen
  /\ \A i \in Children : clients[i] >= 1
  /\ out.items[1].data = <<sum(payload)>>

\* C7: federated_mean of a CLIENTS value is a SERVER value that holds the
\* sum of all clients' values divided by the number of clients, which is
\* the sum of the child cardinalities.
C7_FederatedMean ==
  (op = "mean" /\ pc = "done" /\ total_clients > 0)
    => /\ result.status = "ok"
       /\ cards = true_cardinalities
       /\ out.rep = "delegate" /\ out.placement = "SERVER" /\ out.all_equal
       /\ out.items[1].owner = Parent
       /\ out.items[1].data[2] > 0
       /\ out.items[1].data[1] * total_clients
            = sum(all_values) * out.items[1].data[2]

C7_Witness ==
  /\ op = "mean" /\ pc = "done" /\ result.status = "ok"
  /\ ~held.all_equal
  /\ total_clients # NumChildren
  /\ out.items[1].data[2] > 1

\* C8: federated_map_all_equal on an argument that is not all_equal fails
\* with a type or value error and no call reaches a child or the parent.
C8_MapAllEqualRejected ==
  (op = "map" /\ call_args.all_equal /\ ~held.all_equal)
    => /\ pc = "done"
       /\ result.status = "error"
       /\ result.err \in {"TypeError", "ValueError"}
       /\ child_calls = at_start.child
       /\ parent_calls = at_start.parent

C8_Witness ==
  /\ op = "map" /\ call_args.all_equal /\ ~held.all_equal
  /\ result = Raise("ValueError")

\* C9 as claimed: create_call of federated_secure_sum fails with the
\* not-implemented error whatever the argument.
C9_AlwaysNotImplemented ==
  op = "secure_sum" => result = Raise("NotImplementedError")

\* C9 as amended: create_call of federated_secure_sum fails with the
\* not-implemented error when it is given no argument or an argument whose
\* type is assignable to the operator's parameter type, and with the type
\* error of create_call otherwise; it never returns a value and calls no
\* executor.
C9_NotImplementedIfAssignable ==
  op = "secure_sum"
    => /\ pc = "done"
       /\ (~call_args.has_arg \/ call_args.assignable)
            => result = Raise("NotImplementedError")
       /\ (call_args.has_arg /\ ~call_args.assignable)
            => result = Raise("TypeError")
       /\ child_calls = at_start.child
       /\ parent_calls = at_start.parent

C9_Witness ==
  /\ op = "secure_sum"
  /\ call_args.has_arg /\ call_args.assignable
  /\ result = Raise("NotImplementedError")

\* C10: federated_eval_at_server calls the function once, at the parent,
\* and calls no child; federated_eval_at_clients calls it once per child;
\* the result is the SERVER (resp. CLIENTS) value.
C10_EvalWhereItBelongs ==
  (op = "eval" /\ pc = "done")
    => IF call_args.placement = "SERVER"
       THEN /\ parent_calls.create_call = at_start.parent.create_call + 1
            /\ child_calls = at_start.child
            /\ out.rep = "delegate" /\ out.placement = "SERVER"
       ELSE /\ \A i \in Children :
                 child_calls[i].create_call
                   = at_start.child[i].create_call + 1
            /\ parent_calls = at_start.parent
            /\ out.rep = "list" /\ out.placement = "CLIENTS"

\* the representation of a value agrees with the placement of its type
representation_fits(v) ==
  /\ v.placement = "SERVER"
       => /\ v.rep = "delegate"
          /\ Len(v.items) = 1
          /\ v.items[1].owner = Parent
  /\ (v.placement = "CLIENTS" /\ ~v.all_equal) => v.rep = "list"

\* C11: every value the node has produced that is placed at SERVER is one
\* handle owned by the parent and never a per-child list, and every CLIENTS
\* value that is not all_equal is a per-child list.
C11_RepresentationFitsPlacement ==
  representation_fits(held) /\ representation_fits(out)

\* C12: federated_broadcast computes the SERVER value once at the parent and
\* constructs it once at every child; the result is a CLIENTS all_equal
\* per-child list, one handle per child, every child holding the value, and
\* compute on it returns the value.
C12_Broadcast ==
  /\ (op = "broadcast" /\ pc = "done")
       => /\ result.status = "ok"
          /\ parent_calls.compute = at_start.parent.compute + 1
          /\ \A i \in Children :
               /\ child_calls[i].create_value
                    = at_start.child[i].create_value + 1
               /\ out.items[i].owner = i
               /\ out.items[i].data = payload
          /\ out.rep = "list" /\ Len(out.items) = NumChildren
          /\ out.placement = "CLIENTS" /\ out.all_equal
  /\ (op = "compute_all_equal" /\ pc = "done") => result = Ok(payload)

C12_Witness ==
  /\ op = "compute_all_equal" /\ pc = "done"
  /\ result = Ok(held.items[1].data)
  /\ out.rep = "list" /\ out.all_equal
  /\ \A i \in Children : out.items[i].owner = i

\* C13: federated_zip_at_clients of two CLIENTS values pairs, at every
\* child, that child's handles of the two, and the result materializes to
\* the pairs (a_k, b_k) of all clients k in client order.  Here a is the
\* value the request constructed and b what federated_map made of it.
C13_ZipPairsInOrder ==
  (op = "zip" /\ pc = "done")
    => /\ result.status = "ok"
       /\ out.rep = "list" /\ out.placement = "CLIENTS"
       /\ Len(out.items) = NumChildren
       /\ \A i \in Children :
            /\ out.items[i].owner = i
            /\ out.items[i].data =
                 [k \in 1..clients[i] |->
                    <<true_members(i)[k],
                      apply_unary(call_args.fn, true_members(i)[k])>>]
            /\ child_calls[i].create_call = at_start.child[i].create_call + 1
       /\ extend_all([i \in Children |-> out.items[i].data]) =
            [k \in 1..total_clients |->
               <<all_values[k], apply_unary(call_args.fn, all_values[k])>>]

C13_Witness ==
  /\ op = "zip" /\ pc = "done"
  /\ ~held.all_equal /\ call_args.fn = "negate"
  /\ clients[1] = 2 /\ clients[NumChildren] = 1
  /\ out.items[1].data = <<<<1, -1>>, <<2, -2>>>>

\* C14: create_selection with neither index nor name, or with both, fails,
\* on a source held by the parent as on a tuple of this node; it never
\* picks one of the two selectors.
C14_SelectionNeedsOneSelector ==
  (op = "selection" /\ pc = "done"
     /\ (call_args.index = NoIndex) = (call_args.name = NoName))
    => result.status = "error"

\* C15: when a branch of a fan-out fails (a child's create_value or compute,
\* a call of a child's _child_fn under federated_map, federated_eval or
\* federated_zip_at_clients, the parent's construction or materialization
\* of a tuple element), the operation has failed with the error of a failed
\* branch, unchanged, and has returned nothing built from the other
\* branches, whatever the other branches have done or go on to do.
C15_FanOutFailsAsAWhole ==
  (\E i \in Children : got[i].form = "raised")
    => /\ pc = "done"
       /\ result.status = "error"
       /\ result.err \in {got[i].data[1] :
                            i \in {j \in Children : got[j].form = "raised"}}
       /\ result.data = <<>>
       /\ op \in {"create_value", "create_value_all_equal",
                   "create_value_tuple"} => held = NoValue
       /\ op \in {"map", "eval"} => out = NoValue
       /\ op = "zip" => /\ out.rep = "list"
                        /\ \A i \in Children : out.items[i].form = "list"

C15_Witness ==
  /\ op = "compute" /\ pc = "done"
  /\ Len(order) >= 2
  /\ got[order[1]].form = "list" /\ got[order[1]].data # <<>>
  /\ got[order[Len(order)]].form = "raised"
  /\ result = Raise("UnavailableError")

\* C16: once a child's counting has failed, the failure is what every
\* request gets, the same for all, no request gets a table, and no child's
\* counting is started a second time.
C16_FailureIsCached ==
  (cardinalities_task.state = "failed" \/ errors_returned # {})
    => /\ cardinalities_task.state = "failed"
       /\ errors_returned \subseteq {cardinalities_task.result[1]}
       /\ tables_returned = {}
       /\ \A i \in Children : num_clients_runs[i] <= 1

C16_Witness ==
  /\ cardinalities_task.state = "failed"
  /\ callers_done = NumCallers
  /\ errors_returned = {"RuntimeError"}
  /\ \E i \in Children : num_clients_pc[i] = "done"

\* C17: close() closes the parent and every child: once it has been called,
\* every executor the node owns has been closed, as often as the node.
C17_CloseReleasesAll ==
  (\E e \in {Parent} \cup Children : closed[e] > 0)
    => \A e \in {Parent} \cup Children : closed[e] = closed[Parent]
                                         /\ closed[e] > 0

C17_Witness ==
  /\ \A e \in {Parent} \cup Children : closed[e] = 1
  /\ cardinalities_task.state = "running"
  /\ callers_waiting > 0

\* C18 as claimed: create_call on an unparsed computation: a tensorflow
\* computation is constructed at the parent and called there exactly once,
\* the parent's result is wrapped and no child is called; for any other
\* kind the call fails with the unsupported-operation error (a ValueError)
\* and neither the parent nor a child is called.
C18_CallOfComputationUnchecked ==
  (op = "call" /\ pc = "done")
    => /\ child_calls = at_start.child
       /\ IF held.items[1] = "tensorflow"
          THEN /\ result.status = "ok"
               /\ parent_calls.create_call = at_start.parent.create_call + 1
               /\ out.rep = "delegate"
               /\ out.items = <<parent_call_result>>
          ELSE /\ result = Raise("ValueError")
               /\ parent_calls = at_start.parent
               /\ out = NoValue

\* C18 as amended: create_call on an unparsed computation calls no child.
\* An argument of a type the parameter cannot be assigned from fails with
\* TypeError, whatever the kind, and the parent is not called.  Otherwise a
\* kind other than tensorflow fails with the unsupported-operation error
\* and the parent is not called; a tensorflow computation is constructed
\* at the parent by one create_value, and then, if the argument is a
\* per-child list, the call fails with TypeError without an invocation,
\* else the parent is asked one create_call and its result is wrapped.
C18_CallOfComputation ==
  op = "call"
    => /\ child_calls = at_start.child
       /\ IF call_args.has_arg /\ ~call_args.assignable
          THEN /\ pc = "done"
               /\ result = Raise("TypeError")
               /\ parent_calls = at_start.parent
               /\ out = NoValue
          ELSE IF held.items[1] # "tensorflow"
          THEN /\ pc = "done"
               /\ result = Raise("ValueError")
               /\ parent_calls = at_start.parent
               /\ out = NoValue
          ELSE IF call_args.has_arg /\ call_args.arg_rep # "delegate"
          THEN /\ pc = "done"
               /\ result = Raise("TypeError")
               /\ parent_calls =
                    [at_start.parent EXCEPT !.create_value = @ + 1]
               /\ out = NoValue
          ELSE /\ parent_calls =
                    [at_start.parent EXCEPT
                       !.create_value = @ + 1,
                       !.create_call =
                          @ + (IF pc = "parent_value" THEN 0 ELSE 1)]
               /\ pc \in {"parent_value", "parent_call", "done"}
               /\ pc # "done" => result = NoResult /\ out = NoValue
               /\ pc = "done"
                    => /\ result.status = "ok"
                       /\ out.rep = "delegate"
                       /\ out.items = <<parent_call_result>>

C18_Witness ==
  /\ op = "call" /\ pc = "done"
  /\ call_args.has_arg /\ call_args.assignable
  /\ call_args.arg_rep = "delegate"
  /\ held.items[1] = "tensorflow"
  /\ result.status = "ok"
  /\ parent_calls.create_call = at_start.parent.create_call + 1
  /\ parent_calls.create_value = at_start.parent.create_value + 1
  /\ out.items = <<parent_call_result>>

\* C19: create_value against a federated type placed at SERVER: with
\* all_equal false it fails with the error for a wrong all_equal flag (the
\* type-mismatch kind of the specification, raised as ValueError) and calls
\* neither the parent nor a child; with all_equal true it issues exactly
\* one create_value to the parent, none to a child, and wraps the parent's
\* handle as a value of the SERVER type.
C19_CreateValueAtServer ==
  op = "create_value_server"
    => /\ child_calls = at_start.child
       /\ IF call_args.all_equal
          THEN /\ parent_calls =
                    [at_start.parent EXCEPT !.create_value = @ + 1]
               /\ pc # "done" => held = NoValue
               /\ pc = "done"
                    => /\ result.status = "ok"
                       /\ held.rep = "delegate"
                       /\ held.placement = "SERVER" /\ held.all_equal
                       /\ held.items = <<[owner |-> Parent, form |-> "scalar",
                                          data |-> payload]>>
          ELSE /\ pc = "done"
               /\ result = Raise("ValueError")
               /\ parent_calls = at_start.parent
               /\ held = NoValue

C19_Witness ==
  /\ op = "create_value_server" /\ call_args.all_equal
  /\ pc = "done" /\ result.status = "ok"
  /\ parent_calls.create_value = 1
  /\ held.rep = "delegate" /\ held.items[1].data = payload

\* a sequence of named elements has the keys of a type, in its order
same_keys(elements, type_spec) ==
  /\ Len(elements) = Len(type_spec)
  /\ \A k \in 1..Len(type_spec) : elements[k].key = type_spec[k].key

\* C20: create_value against a named tuple type, nested tuples included,
\* returns a structured tuple of this node with the elements and keys of
\* the type, in its order, and compute on it returns a tuple of that shape.
C20_CreateValueOfTuple ==
  /\ (op = "create_value_tuple" /\ pc = "done")
       => /\ result.status = "ok"
          /\ held.rep = "tuple"
          /\ same_keys(held.items, call_args.type_spec)
          /\ \A k \in 1..Len(call_args.type_spec) :
               ~call_args.type_spec[k].leaf
                 => /\ held.items[k].value.rep = "tuple"
                    /\ same_keys(held.items[k].value.items,
                                 call_args.type_spec[k].elements)
  /\ op = "compute_tuple"
       => /\ result.status = "ok"
          /\ same_keys(result.data, call_args.type_spec)

\* C21: create_call with an argument whose type is not assignable to the
\* parameter type of the function fails with the type error, whether the
\* function is an operator or a computation, and neither the parent nor a
\* child has been called by then.
C21_TypeCheckComesFirst ==
  (op \in {"map", "secure_sum", "call", "call_intrinsic", "apply",
            "zip_at_server"}
     /\ call_args.has_arg /\ ~call_args.assignable)
    => /\ pc = "done"
       /\ result = Raise("TypeError")
       /\ child_calls = at_start.child
       /\ parent_calls = at_start.parent

C21_Witness ==
  /\ op = "call" /\ held.items[1] = "tensorflow"
  /\ call_args.has_arg /\ ~call_args.assignable
  /\ result = Raise("TypeError")
  /\ parent_calls = at_start.parent

\* C22: compute on a per-child list whose type is all_equal issues one
\* compute, to the first child's handle, none to another child or to the
\* parent, and returns what the first child's handle materializes to.
C22_ComputeFirstChildOnly ==
  (op \in ListComputeOps /\ computed.all_equal)
    => /\ child_calls[1] = [at_start.child[1] EXCEPT !.compute = @ + 1]
       /\ \A i \in Children \ {1} : child_calls[i] = at_start.child[i]
       /\ parent_calls = at_start.parent
       /\ pc = "done" => result = Ok(computed.items[1].data)

C22_Witness ==
  /\ op = "compute_mapped" /\ pc = "done" /\ out.all_equal
  /\ call_args.fn = "negate"
  /\ out.items[1].owner = 1
  /\ child_calls[1].compute = 1
  /\ child_calls[NumChildren].compute = 0
  /\ result = Ok(<<-2>>)

\* the element of a tuple that one selector names
element_at(elements, index, name) ==
  IF index # NoIndex THEN elements[index + 1].value
  ELSE elements[position_of(name)].value

\* an operation that calls no executor and leaves the cardinality task and
\* the value the request constructed as they are
bookkeeping_only ==
  /\ child_calls' = child_calls
  /\ parent_calls' = parent_calls
  /\ cardinalities_task' = cardinalities_task
  /\ num_clients_pc' = num_clients_pc
  /\ num_clients_runs' = num_clients_runs
  /\ held' = held

\* C23: create_tuple calls neither the parent nor a child, leaves the
\* cardinality task alone and returns the tuple of the values it was given,
\* unchanged, under their names and in their order; create_selection on a
\* tuple of this node does the same and, given one selector, returns the
\* element stored under it, with its type.
C23_TuplesAreBookkeeping ==
  [][/\ (op' = "create_tuple" /\ op # "create_tuple")
          => /\ bookkeeping_only
             /\ out'.rep = "tuple"
             /\ out'.items = <<[key |-> TupleKeys[1], value |-> held],
                               [key |-> TupleKeys[2], value |-> out]>>
     /\ (op' = "selection" /\ call_args'.source = "tuple")
          => /\ bookkeeping_only
             /\ ((call_args'.index = NoIndex) # (call_args'.name = NoName))
                  => /\ result'.status = "ok"
                     /\ out' = element_at(
                                 IF op = "create_tuple" THEN out.items
                                 ELSE <<[key |-> TupleKeys[1], value |-> held],
                                        [key |-> TupleKeys[2], value |-> out]>>,
                                 call_args'.index, call_args'.name)]_vars

C23_Witness ==
  /\ op = "selection" /\ call_args.source = "tuple"
  /\ call_args.index = NoIndex /\ call_args.name = "b"
  /\ result.status = "ok"
  /\ out.rep = "list" /\ out # held
  /\ out.items[1].data = <<-2>>
  /\ child_calls = at_start.child

\* a per-child list has one entry per child, the entry at position i being
\* a handle of child i
one_handle_per_child(items) ==
  /\ Len(items) = NumChildren
  /\ \A i \in Children : items[i].owner = i

\* the operations that return a per-child list
ListOps == {"create_value", "create_value_all_equal", "map", "eval", "zip",
            "broadcast"}

\* C24: every per-child list the node has produced (by create_value against
\* a CLIENTS type, federated_map, federated_eval, federated_zip_at_clients
\* or federated_broadcast) has exactly one entry per child and its entry i
\* is a handle of child i, whatever the order in which the children
\* answered; so has the list an operation is about to return once its last
\* child has answered.
C24_OneHandlePerChild ==
  /\ held.rep = "list" => one_handle_per_child(held.items)
  /\ out.rep = "list" => one_handle_per_child(out.items)
  /\ (op \in ListOps /\ pc = "children" /\ Len(order) = NumChildren)
       => one_handle_per_child(gather(got, order))

C24_Witness ==
  /\ op = "zip" /\ pc = "children"
  /\ Len(order) = NumChildren
  /\ order[1] = NumChildren /\ order[NumChildren] = 1
  /\ held.rep = "list" /\ out.rep = "list"
  /\ one_handle_per_child(held.items)
  /\ one_handle_per_child(out.items)
  /\ one_handle_per_child(gather(got, order))

\* C25: once a caller waiting for the cardinality task has been cancelled,
\* the task is still running or done, never cancelled, no other caller has
\* got an error, and every caller that has come back without having been
\* cancelled has come back with the table.
C25_CancellationIsIsolated ==
  callers_cancelled > 0
    => /\ cardinalities_task.state \in {"running", "done"}
       /\ errors_returned = {}
       /\ callers_done > callers_cancelled
            => tables_returned = {true_cardinalities}

=============================================================================
